---- MODULE Spec2Model ----
(***************************************************************************)
(* Model of the cell-data pipeline of src/taskpane/taskpane.js:            *)
(* batchCellData (grouping and chunking of cell records),                  *)
(* transmitAllCellData (sequential delivery with failure accounting and    *)
(* progress events), the extraction of the used ranges, initializeChat,    *)
(* extractAndTransmitWorkbookData, fetchWorkbookConfig, getColumnLetter,   *)
(* and the session with its chat and the passes started from the console.  *)
(*                                                                         *)
(* A cell record is [sheet_name, id]; id stands for the rest of the record *)
(* (column, row, formula, value, display_text) and is the record's         *)
(* position in the input list, so that two records are never equal.        *)
(***************************************************************************)
EXTENDS Integers, Sequences, FiniteSets

VARIABLES
    cellData,           \* argument cellData (list of cell records)
    batchSize,          \* argument batchSize of batchCellData
    progressCallback,   \* TRUE when a progress callback is supplied, FALSE for null
    batches,            \* const batches (result of batchCellData)
    pc,                 \* position of the running call
    i,                  \* loop variable of the for loop in transmitAllCellData
    successfulBatches,
    failedBatches,
    errors,
    inFlight,           \* indices i whose POST to /store-cell-data is pending
    deliveries,         \* every POST started so far, in order
    responses,          \* outcome of every resolved POST, in order: "ok" or a failure
    events,             \* every progress event passed to progressCallback, in order
    summary,            \* <<>> until transmitAllCellData returns, then <<summary>>
    workbook,           \* the host workbook: its sheets, in worksheet order
    worksheetNames,     \* const worksheetNames of extractAllWorksheetData
    sheetIdx,           \* number of sheets the for-of loop of extractAllWorksheetData is done with
    allCellData,        \* let allCellData of extractAllWorksheetData
    rangeLoads,         \* every used range the host loaded for getUsedRangeData, in order
    caller,             \* the top-level function that is running, "none" for a bare call
    currentFileId,      \* let currentFileId, Null while unset
    shown,              \* what addMessage and showError have shown, in order
    isLoading,          \* chatState.isLoading
    disabled,           \* the disabled property of the send button and of the message input
    worksheetData,      \* const worksheetData of initializeChat
    initResponse,       \* the POST to /initialize: "none", "pending", "ok" or a failure
    result,             \* <<>> until extractAndTransmitWorkbookData returns, then <<result>>
    workbookConfig,     \* let workbookConfig, Null while unset
    configReturn,       \* <<>> until fetchWorkbookConfig returns, then <<value>>
    configResponses,    \* outcome of every resolved GET of /config, in order
    fileId,             \* argument fileId of the running pass
    chatPc,             \* positions of the running calls of handleSendMessage
    chatRequests,       \* every POST to /chat started so far, in order
    rerun,              \* the pass started from window.forceReExtractCellData or window.testCellDataExtraction
    cellDataExtracted,  \* let cellDataExtracted
    columnIndexArg      \* argument columnIndex of a call of getColumnLetter

transmitVars == <<cellData, batchSize, progressCallback, batches, pc, i,
                  successfulBatches, failedBatches, errors, inFlight,
                  deliveries, responses, events, summary>>

transmitVarsButPc == <<cellData, batchSize, progressCallback, batches, i,
                       successfulBatches, failedBatches, errors, inFlight,
                       deliveries, responses, events, summary>>

extractVars == <<workbook, worksheetNames, sheetIdx, allCellData, rangeLoads>>

sessionVars == <<caller, currentFileId, shown, isLoading, disabled, worksheetData,
                 initResponse, result>>

configVars == <<workbookConfig, configReturn, configResponses>>

\* Everything outside one call of batchCellData or transmitAllCellData.
\* The chat, the pass started from the console, and the arguments of calls.
sideVars == <<fileId, chatPc, chatRequests, rerun, cellDataExtracted, columnIndexArg>>
sideVarsButFileId == <<chatPc, chatRequests, rerun, cellDataExtracted, columnIndexArg>>

outerVars == <<extractVars, sessionVars, configVars, sideVars>>

vars == <<transmitVars, outerVars>>

\* ------------------------------------------------------------------ bounds
MaxCells == 4        \* longest enumerated cell list
MaxBatchSize == 3    \* largest batchSize tried on the enumerated lists
MaxSheets == 2       \* most sheets in a workbook
MaxRows == 2         \* most rows of a used range
MaxCols == 2         \* most columns of a used range
MaxFetches == 3      \* most calls of fetchWorkbookConfig in a session
MaxColumnIndex == 10000  \* largest columnIndex passed to getColumnLetter on its own
MaxChats == 2        \* most messages the user sends in a session
MaxReruns == 1       \* most passes started from the console in a session
MaxOffset == 1       \* most rows and columns between A1 and a used range

\* batchSize default (line 650) and the literal passed by transmitAllCellData (line 744)
DefaultBatchSize == 1500

\* JavaScript null and undefined.
Null == "<null>"
Undefined == "<undefined>"

\* ------------------------------------------------------------ sheet names
\* "2024" is an integer-like property name, "constructor" is a property every
\* object literal inherits from Object.prototype.
SheetNames == {"Sheet1", "Data", "2024", "constructor"}

\* Names for which cellsBySheet[name] is already truthy on a fresh {} (line 652).
InheritedKeys == {"constructor"}

\* Value of an integer-like (array index) property name, -1 for any other name.
ArrayIndex(name) == IF name = "2024" THEN 2024 ELSE -1

Min(a, b) == IF a < b THEN a ELSE b

\* Mutant: slice(start), the end argument is dropped.
SliceToEnd(arr, start, end) == SubSeq(arr, start + 1, Len(arr))

\* Array.prototype.slice(start, end) with 0 <= start <= end, 0-based, end exclusive.
Slice(arr, start, end) == SubSeq(arr, start + 1, Min(end, Len(arr)))

\* ---------------------------------------------------------- batchCellData
\* Lines 655-660: cellsBySheet[cell.sheet_name].push(cell) when the entry is
\* falsy it is first created as []. For an inherited name the entry is the
\* inherited value, which has no push: the forEach callback throws TypeError.
GroupingThrows(C) == \E k \in 1..Len(C) : C[k].sheet_name \in InheritedKeys

\* Mutant: the entry is overwritten by [cell] instead of pushed to.
CellsOfSheetOverwritten(C, name) ==
    LET all == SelectSeq(C, LAMBDA cell : cell.sheet_name = name)
    IN  SubSeq(all, Len(all), Len(all))

\* Mutant: unshift instead of push.
CellsOfSheetReversed(C, name) ==
    LET all == SelectSeq(C, LAMBDA cell : cell.sheet_name = name)
    IN  [k \in 1..Len(all) |-> all[Len(all) + 1 - k]]

\* cellsBySheet[name] after the forEach of lines 655-660: the cells of that
\* sheet, pushed in input order.
CellsOfSheet(C, name) == SelectSeq(C, LAMBDA cell : cell.sheet_name = name)

\* The own property names of cellsBySheet.
SheetsOf(C) == {C[k].sheet_name : k \in 1..Len(C)}

\* Position of the cell that created the property `name`.
FirstIndex(C, name) ==
    CHOOSE k \in 1..Len(C) :
        /\ C[k].sheet_name = name
        /\ \A j \in 1..(k - 1) : C[j].sheet_name # name

\* Property order of Object.keys: integer-like names in ascending numeric
\* order, then the other names in creation order.
KeyBefore(C, a, b) ==
    IF ArrayIndex(a) >= 0 /\ ArrayIndex(b) >= 0 THEN ArrayIndex(a) < ArrayIndex(b)
    ELSE IF ArrayIndex(a) >= 0 THEN TRUE
    ELSE IF ArrayIndex(b) >= 0 THEN FALSE
    ELSE FirstIndex(C, a) < FirstIndex(C, b)

\* Object.keys(cellsBySheet), line 663.
ObjectKeys(C) ==
    LET names == SheetsOf(C)
        rank(n) == Cardinality({m \in names : m # n /\ KeyBefore(C, m, n)})
    IN  [k \in 1..Cardinality(names) |-> CHOOSE n \in names : rank(n) = k - 1]

\* Mutant: the batch number is left 0-based.
BatchNumberZeroBased(idx, N) == idx \div N

\* Line 669.
BatchNumberOf(idx, N) == (idx \div N) + 1

\* Mutant: batches.unshift instead of batches.push.
RECURSIVE SheetLoopUnshift(_, _, _, _, _)
SheetLoopUnshift(sheetName, sheetCells, N, idx, acc) ==
    IF idx < Len(sheetCells)
    THEN SheetLoopUnshift(sheetName, sheetCells, N, idx + N,
                   <<[sheet_name   |-> sheetName,
                      cells        |-> Slice(sheetCells, idx, idx + N),
                      total_cells  |-> Len(sheetCells),
                      batch_number |-> BatchNumberOf(idx, N)]>> \o acc)
    ELSE acc

\* The for loop of lines 667-677 for one sheet, from loop variable idx on;
\* acc is the batches array.
RECURSIVE SheetLoop(_, _, _, _, _)
SheetLoop(sheetName, sheetCells, N, idx, acc) ==
    IF idx < Len(sheetCells)
    THEN SheetLoop(sheetName, sheetCells, N, idx + N,
                   Append(acc, [sheet_name   |-> sheetName,
                                cells        |-> Slice(sheetCells, idx, idx + N),
                                total_cells  |-> Len(sheetCells),
                                batch_number |-> BatchNumberOf(idx, N)]))
    ELSE acc

\* The forEach over Object.keys(cellsBySheet) of lines 663-678, from key k on.
RECURSIVE KeysLoop(_, _, _, _, _)
KeysLoop(C, keys, N, k, acc) ==
    IF k > Len(keys) THEN acc
    ELSE KeysLoop(C, keys, N, k + 1,
                  SheetLoop(keys[k], CellsOfSheet(C, keys[k]), N, 0, acc))

\* Mutant: the cells are not grouped by sheet; a batch is closed whenever the
\* next cell of the input belongs to another sheet.
BatchCellDataUngrouped(C, N) ==
    LET starts == {k \in 1..Len(C) : k = 1 \/ C[k].sheet_name # C[k - 1].sheet_name}
        start(j) == CHOOSE st \in starts : Cardinality({t \in starts : t < st}) = j - 1
        end(j) == IF j = Cardinality(starts) THEN Len(C) ELSE start(j + 1) - 1
    IN  [j \in 1..Cardinality(starts) |->
            [sheet_name   |-> C[start(j)].sheet_name,
             cells        |-> SubSeq(C, start(j), end(j)),
             total_cells  |-> end(j) - start(j) + 1,
             batch_number |-> 1]]

\* batchCellData(cellData, batchSize) when it returns.
BatchCellData(C, N) == KeysLoop(C, ObjectKeys(C), N, 1, <<>>)

\* ------------------------------------------------------------ input lists
\* The cell list whose k-th record belongs to sheet names[k].
MkCells(names) == [k \in 1..Len(names) |-> [sheet_name |-> names[k], id |-> k]]

NameSeqs(n) == UNION {[1..m -> SheetNames] : m \in 0..n}

SmallInputs == {MkCells(names) : names \in NameSeqs(MaxCells)}

\* A list of n1 cells of sheet a followed by n2 cells of sheet b.
TwoRuns(a, n1, b, n2) ==
    [k \in 1..(n1 + n2) |-> [sheet_name |-> IF k <= n1 THEN a ELSE b, id |-> k]]

\* Lists long enough for one sheet to need several batches of DefaultBatchSize.
LargeInputs ==
    { TwoRuns("Sheet1", DefaultBatchSize, "Data", 0),
      TwoRuns("Sheet1", DefaultBatchSize + 1, "Data", 0),
      TwoRuns("Sheet1", DefaultBatchSize + 1, "Data", 1),
      TwoRuns("Data", 1, "2024", 2 * DefaultBatchSize + 1) }

\* ----------------------------------------------------------------- states
NotStarted ==
    /\ batches = <<>>
    /\ i = 0
    /\ successfulBatches = 0
    /\ failedBatches = 0
    /\ errors = <<>>
    /\ inFlight = {}
    /\ deliveries = <<>>
    /\ responses = <<>>
    /\ events = <<>>
    /\ summary = <<>>

\* The controls before setLoadingState has run: both enabled.
NoneDisabled == [sendButton |-> FALSE, messageInput |-> FALSE]

\* No extraction, no session function and no config fetch has run.
NoExtraction ==
    /\ worksheetNames = <<>>
    /\ sheetIdx = 0
    /\ allCellData = <<>>
    /\ rangeLoads = <<>>

NoSession ==
    /\ currentFileId = Null
    /\ shown = <<>>
    /\ isLoading = FALSE
    /\ disabled = NoneDisabled
    /\ worksheetData = <<>>
    /\ initResponse = "none"
    /\ result = <<>>

NoConfig ==
    /\ workbookConfig = Null
    /\ configReturn = <<>>
    /\ configResponses = <<>>

\* No chat message was sent, no pass was started from the console.
NoRerun ==
    [pc                |-> "idle",
     runs              |-> 0,
     caller            |-> "none",
     fileId            |-> Null,
     cellData          |-> <<>>,
     batches           |-> <<>>,
     i                 |-> 0,
     successfulBatches |-> 0,
     failedBatches     |-> 0,
     deliveries        |-> <<>>,
     result            |-> <<>>]
NoSide ==
    /\ chatPc = <<>>
    /\ chatRequests = <<>>
    /\ rerun = NoRerun
    /\ cellDataExtracted = FALSE
    /\ columnIndexArg = 0

\* A bare call of one function, on no workbook.
BareCall ==
    /\ workbook = <<>>
    /\ caller = "none"
    /\ fileId = "file-1"
    /\ NoSide
    /\ NoExtraction
    /\ NoSession
    /\ NoConfig

\* A call batchCellData(cellData, batchSize) about to run.
InitBatch ==
    /\ cellData \in SmallInputs
    /\ batchSize \in 1..MaxBatchSize
    /\ progressCallback = FALSE
    /\ pc = "batch_call"
    /\ NotStarted
    /\ BareCall

\* Lines 650-682.
CallBatchCellData ==
    /\ pc = "batch_call"
    /\ IF GroupingThrows(cellData)
       THEN /\ pc' = "batch_threw"
            /\ UNCHANGED batches
       ELSE /\ pc' = "batch_returned"
            /\ batches' = BatchCellData(cellData, batchSize)
    /\ UNCHANGED <<cellData, batchSize, progressCallback, i, successfulBatches,
                   failedBatches, errors, inFlight, deliveries, responses,
                   events, summary>>
    /\ UNCHANGED outerVars

NextBatch == CallBatchCellData

SpecBatch == InitBatch /\ [][NextBatch]_vars

\* ---------------------------------------------------- transmitAllCellData
\* The ways sendCellDataBatch throws: fetch rejects (line 702), the response
\* is not ok (lines 711-720), the body of an ok response does not parse
\* (line 722). The name stands for error.message.
FailureKinds == {"network", "status", "body"}

\* The receiver answered the POST with an ok status (line 711 did not
\* throw): the delivery resolved, or only the parsing of the response body
\* at line 722 threw.
StatusOk(outcome) == outcome \in {"ok", "body"}

\* progressCallback(event) behind its `if (progressCallback)` guard.
Emit(event) == IF progressCallback THEN Append(events, event) ELSE events

\* const batch = batches[i], line 763.
BatchAt(idx) == batches[idx + 1]

\* Mutant: compared with batches.length.
IsFinalBatchOffByOne(idx) == idx = Len(batches)

\* const isFinalBatch = (i === batches.length - 1), line 764.
IsFinalBatch(idx) == idx = Len(batches) - 1

\* Mutant: success as soon as one batch went through.
SummarySuccessIfAny ==
    [totalCells        |-> Len(cellData),
     totalBatches      |-> Len(batches),
     successfulBatches |-> successfulBatches,
     failedBatches     |-> failedBatches,
     errors            |-> errors,
     success           |-> successfulBatches > 0]

\* const summary, lines 803-810.
Summary ==
    [totalCells        |-> Len(cellData),
     totalBatches      |-> Len(batches),
     successfulBatches |-> successfulBatches,
     failedBatches     |-> failedBatches,
     errors            |-> errors,
     success           |-> failedBatches = 0]

\* A call transmitAllCellData(fileId, cellData, progressCallback) about to run.
Init ==
    /\ cellData \in SmallInputs \cup LargeInputs
    /\ batchSize = DefaultBatchSize
    /\ progressCallback \in BOOLEAN
    /\ pc = "called"
    /\ NotStarted
    /\ BareCall

\* Mutant: the 'preparation' event reports the batch count as the cell count.
PrepareReportsBatchesAsCells ==
    /\ pc = "called"
    /\ IF GroupingThrows(cellData)
       THEN /\ pc' = "threw"
            /\ UNCHANGED <<batches, events>>
       ELSE /\ pc' = "loop"
            /\ batches' = BatchCellData(cellData, DefaultBatchSize)
            /\ events' = Emit([stage            |-> "preparation",
                               totalBatches     |-> Len(batches'),
                               completedBatches |-> 0,
                               currentSheet     |-> "null",
                               totalCells       |-> Len(batches')])
    /\ i' = 0
    /\ successfulBatches' = 0
    /\ failedBatches' = 0
    /\ errors' = <<>>
    /\ UNCHANGED <<cellData, batchSize, progressCallback, inFlight, deliveries,
                   responses, summary>>
    /\ UNCHANGED outerVars

\* Lines 741-759: batching, the 'preparation' event, the counters. A throw of
\* batchCellData is rethrown by the catch of lines 822-825.
Prepare ==
    /\ pc = "called"
    /\ IF GroupingThrows(cellData)
       THEN /\ pc' = "threw"
            /\ UNCHANGED <<batches, events>>
       ELSE /\ pc' = "loop"
            /\ batches' = BatchCellData(cellData, DefaultBatchSize)
            /\ events' = Emit([stage            |-> "preparation",
                               totalBatches     |-> Len(batches'),
                               completedBatches |-> 0,
                               currentSheet     |-> "null",
                               totalCells       |-> Len(cellData)])
    /\ i' = 0
    /\ successfulBatches' = 0
    /\ failedBatches' = 0
    /\ errors' = <<>>
    /\ UNCHANGED <<cellData, batchSize, progressCallback, inFlight, deliveries,
                   responses, summary>>
    /\ UNCHANGED outerVars

\* Mutant: the send is not awaited, the loop goes on at once.
SendBatchNotAwaited ==
    /\ pc = "loop"
    /\ i < Len(batches)
    /\ deliveries' = Append(deliveries, [file_id        |-> fileId,
                                         batch          |-> i,
                                         is_final_batch |-> IsFinalBatch(i)])
    /\ inFlight' = inFlight \cup {Len(deliveries) + 1}
    /\ i' = i + 1
    /\ UNCHANGED <<cellData, batchSize, progressCallback, batches, pc,
                   successfulBatches, failedBatches, errors, responses,
                   events, summary>>
    /\ UNCHANGED outerVars

\* Mutant: the 'transmission' event is emitted for non-final batches only.
SendBatchSilentOnFinal ==
    /\ pc = "loop"
    /\ i < Len(batches)
    /\ events' = IF IsFinalBatch(i) THEN events
                 ELSE Emit([stage            |-> "transmission",
                            totalBatches     |-> Len(batches),
                            completedBatches |-> i,
                            currentSheet     |-> BatchAt(i).sheet_name,
                            batchNumber      |-> BatchAt(i).batch_number,
                            cellsInBatch     |-> Len(BatchAt(i).cells)])
    /\ deliveries' = Append(deliveries, [file_id        |-> fileId,
                                         batch          |-> i,
                                         is_final_batch |-> IsFinalBatch(i)])
    /\ inFlight' = inFlight \cup {Len(deliveries) + 1}
    /\ pc' = "awaiting"
    /\ UNCHANGED <<cellData, batchSize, progressCallback, batches, i,
                   successfulBatches, failedBatches, errors, responses, summary>>
    /\ UNCHANGED outerVars

\* Lines 762-781, one loop iteration up to the await: the 'transmission'
\* event and the POST of sendCellDataBatch(fileId, [batch], isFinalBatch)
\* (lines 693-709). A delivery records the index of the one batch that its
\* payload wraps and the payload's is_final_batch.
SendBatch ==
    /\ pc = "loop"
    /\ i < Len(batches)
    /\ events' = Emit([stage            |-> "transmission",
                       totalBatches     |-> Len(batches),
                       completedBatches |-> i,
                       currentSheet     |-> BatchAt(i).sheet_name,
                       batchNumber      |-> BatchAt(i).batch_number,
                       cellsInBatch     |-> Len(BatchAt(i).cells)])
    /\ deliveries' = Append(deliveries, [file_id        |-> fileId,
                                         batch          |-> i,
                                         is_final_batch |-> IsFinalBatch(i)])
    /\ inFlight' = inFlight \cup {Len(deliveries) + 1}
    /\ pc' = "awaiting"
    /\ UNCHANGED <<cellData, batchSize, progressCallback, batches, i,
                   successfulBatches, failedBatches, errors, responses, summary>>
    /\ UNCHANGED outerVars

\* Lines 722-724 and 782-787: the POST resolved with an ok response whose
\* body parsed; the pacing delay is awaited unless the batch is the final one.
DeliveryAccepted ==
    /\ pc = "awaiting"
    /\ inFlight' = inFlight \ {Len(deliveries)}
    /\ responses' = Append(responses, "ok")
    /\ successfulBatches' = successfulBatches + 1
    /\ IF IsFinalBatch(i)
       THEN /\ i' = i + 1
            /\ pc' = "loop"
       ELSE /\ pc' = "delay"
            /\ UNCHANGED i
    /\ UNCHANGED <<cellData, batchSize, progressCallback, batches,
                   failedBatches, errors, deliveries, events, summary>>
    /\ UNCHANGED outerVars

\* Mutant: a failed delivery ends the call with the error.
DeliveryFailedAborts(kind) ==
    /\ pc = "awaiting"
    /\ inFlight' = inFlight \ {Len(deliveries)}
    /\ responses' = Append(responses, kind)
    /\ pc' = "threw"
    /\ UNCHANGED <<cellData, batchSize, progressCallback, batches, i,
                   successfulBatches, failedBatches, errors, deliveries,
                   events, summary>>
    /\ UNCHANGED outerVars

\* Mutant: the failure is counted but no error record is kept.
DeliveryFailedUnrecorded(kind) ==
    /\ pc = "awaiting"
    /\ inFlight' = inFlight \ {Len(deliveries)}
    /\ responses' = Append(responses, kind)
    /\ failedBatches' = failedBatches + 1
    /\ i' = i + 1
    /\ pc' = "loop"
    /\ UNCHANGED <<cellData, batchSize, progressCallback, batches, errors,
                   successfulBatches, deliveries, events, summary>>
    /\ UNCHANGED outerVars

\* Mutant: a failed delivery is counted and the same batch is sent again.
DeliveryFailedRetries(kind) ==
    /\ pc = "awaiting"
    /\ inFlight' = inFlight \ {Len(deliveries)}
    /\ responses' = Append(responses, kind)
    /\ failedBatches' = failedBatches + 1
    /\ errors' = Append(errors, [batchNumber |-> i + 1,
                                 sheetName   |-> BatchAt(i).sheet_name,
                                 error       |-> kind])
    /\ pc' = "loop"
    /\ UNCHANGED <<cellData, batchSize, progressCallback, batches, i,
                   successfulBatches, deliveries, events, summary>>
    /\ UNCHANGED outerVars

\* Lines 711-720, 726-729 and 789-800: sendCellDataBatch threw; the catch
\* counts the failure, records it and the loop goes on with the next i.
DeliveryFailed(kind) ==
    /\ pc = "awaiting"
    /\ inFlight' = inFlight \ {Len(deliveries)}
    /\ responses' = Append(responses, kind)
    /\ failedBatches' = failedBatches + 1
    /\ errors' = Append(errors, [batchNumber |-> i + 1,
                                 sheetName   |-> BatchAt(i).sheet_name,
                                 error       |-> kind])
    /\ i' = i + 1
    /\ pc' = "loop"
    /\ UNCHANGED <<cellData, batchSize, progressCallback, batches,
                   successfulBatches, deliveries, events, summary>>
    /\ UNCHANGED outerVars

\* Line 786: the 100 ms timer fired.
DelayElapsed ==
    /\ pc = "delay"
    /\ i' = i + 1
    /\ pc' = "loop"
    /\ UNCHANGED <<cellData, batchSize, progressCallback, batches,
                   successfulBatches, failedBatches, errors, inFlight,
                   deliveries, responses, events, summary>>
    /\ UNCHANGED outerVars

\* Lines 803-820: the loop is over; the summary, the 'complete' event, return.
Finish ==
    /\ pc = "loop"
    /\ i >= Len(batches)
    /\ summary' = <<Summary>>
    /\ events' = Emit([stage |-> "complete", summary |-> Summary])
    /\ pc' = "done"
    /\ UNCHANGED <<cellData, batchSize, progressCallback, batches, i,
                   successfulBatches, failedBatches, errors, inFlight,
                   deliveries, responses>>
    /\ UNCHANGED outerVars

Next ==
    \/ Prepare
    \/ SendBatch
    \/ DeliveryAccepted
    \/ \E kind \in FailureKinds : DeliveryFailed(kind)
    \/ DelayElapsed
    \/ Finish

Spec == Init /\ [][Next]_vars

\* The event loop runs every continuation that is ready: a pending POST
\* resolves or fails, the 100 ms timer fires, synchronous code runs on.
SpecLive == Init /\ [][Next]_vars /\ WF_vars(Next)

\* ------------------------------------------------------------- extraction
\* What the host holds for one cell of a loaded range (values, formulas,
\* text): a blank cell as Excel reports it (empty strings), a blank cell
\* reported as nulls, a constant (its formula entry equals its value), a
\* formula cell.
BlankCell == [value |-> "", formula |-> "", text |-> ""]
NullCell == [value |-> Null, formula |-> Null, text |-> ""]
ConstantCell == [value |-> "5", formula |-> "5", text |-> "5"]
FormulaCell == [value |-> "7", formula |-> "=A1+2", text |-> "7"]

HostCells == {BlankCell, NullCell, ConstantCell, FormulaCell}

\* The loaded range object of lines 549-550 for a rowCount x columnCount grid
\* of host cells: 0-based two-dimensional arrays values, formulas, text.
MkRange(rowCount, columnCount, grid) ==
    [rowCount    |-> rowCount,
     columnCount |-> columnCount,
     values      |-> [r \in 0..(rowCount - 1) |->
                        [c \in 0..(columnCount - 1) |-> grid[r][c].value]],
     formulas    |-> [r \in 0..(rowCount - 1) |->
                        [c \in 0..(columnCount - 1) |-> grid[r][c].formula]],
     text        |-> [r \in 0..(rowCount - 1) |->
                        [c \in 0..(columnCount - 1) |-> grid[r][c].text]]]

Ranges(maxRows, maxCols) ==
    UNION { { MkRange(rc, cc, grid) :
                grid \in [0..(rc - 1) -> [0..(cc - 1) -> HostCells]] } :
            rc \in 1..maxRows, cc \in 1..maxCols }

\* The states a sheet can be in for getUsedRangeData: its range loads
\* ("ok"), the host API throws ("error"), getUsedRange() gives a falsy value
\* ("norange").
NoRange == MkRange(0, 0, <<>>)
SheetStates ==
    {[status |-> "error", range |-> NoRange],
     [status |-> "norange", range |-> NoRange]}
    \cup {[status |-> "ok", range |-> r] : r \in Ranges(MaxRows, MaxCols)}

\* The sheet states with at most one cell.
PlainSheetStates ==
    {[status |-> "error", range |-> NoRange],
     [status |-> "norange", range |-> NoRange],
     [status |-> "ok", range |-> MkRange(1, 1, [r \in {0} |-> [c \in {0} |-> ConstantCell]])],
     [status |-> "ok", range |-> MkRange(1, 1, [r \in {0} |-> [c \in {0} |-> BlankCell]])]}

\* The names of the sheets of a workbook, by position.
SheetOrder == <<"Sheet1", "2024", "Data">>

\* The states of the sheets that stand next to a sheet of any state: a
\* failing one and one with a single constant.
NeighbourSheetStates ==
    {[status |-> "error", range |-> NoRange],
     [status |-> "ok", range |-> MkRange(1, 1, [r \in {0} |-> [c \in {0} |-> ConstantCell]])]}

\* The workbooks of n sheets: a plain state for every sheet, or any state for
\* one sheet and a neighbour's state for the others.
WorkbooksOf(n) ==
    { [k \in 1..n |-> [name   |-> SheetOrder[k],
                       status |-> plain[k].status,
                       range  |-> plain[k].range]] :
        plain \in [1..n -> PlainSheetStates] }
    \cup
    { [k \in 1..n |-> [name   |-> SheetOrder[k],
                       status |-> (IF k = at THEN any ELSE other[k]).status,
                       range  |-> (IF k = at THEN any ELSE other[k]).range]] :
        at \in 1..n, any \in SheetStates, other \in [1..n -> NeighbourSheetStates] }

Workbooks == {<<>>} \cup UNION {WorkbooksOf(n) : n \in 1..MaxSheets}

\* !x for the values a cell text can take.
Falsy(x) == x \in {Null, ""}

ColumnLetters ==
    <<"A", "B", "C", "D", "E", "F", "G", "H", "I", "J", "K", "L", "M",
      "N", "O", "P", "Q", "R", "S", "T", "U", "V", "W", "X", "Y", "Z">>

\* The while loop of getColumnLetter, lines 611-614.
RECURSIVE ColumnLetterLoop(_, _)
ColumnLetterLoop(columnIndex, columnLetter) ==
    IF columnIndex >= 0
    THEN ColumnLetterLoop((columnIndex \div 26) - 1,
                          ColumnLetters[(columnIndex % 26) + 1] \o columnLetter)
    ELSE columnLetter

\* Mutant: the letter of columnIndex modulo 26, so that index 26 wraps
\* around to "A".
GetColumnLetterWrapsAround(columnIndex) == ColumnLetters[(columnIndex % 26) + 1]

\* getColumnLetter(columnIndex), lines 609-616.
GetColumnLetter(columnIndex) == ColumnLetterLoop(columnIndex, "")

\* Line 583: the cell is skipped.
SkipCell(cellValue, cellFormula, cellText) ==
    cellValue = Null /\ cellFormula = Null /\ Falsy(cellText)

\* The loops of lines 576-598 from (row, col) on; acc is cellDataArray.
RECURSIVE ConvertLoop(_, _, _, _, _)
ConvertLoop(range, sheetName, row, col, acc) ==
    IF row >= range.rowCount THEN acc
    ELSE IF col >= range.columnCount
    THEN ConvertLoop(range, sheetName, row + 1, 0, acc)
    ELSE LET cellValue   == range.values[row][col]
             cellFormula == range.formulas[row][col]
             cellText    == range.text[row][col]
         IN  IF SkipCell(cellValue, cellFormula, cellText)
             THEN ConvertLoop(range, sheetName, row, col + 1, acc)
             ELSE ConvertLoop(range, sheetName, row, col + 1,
                    Append(acc,
                      [sheet_name   |-> sheetName,
                       column       |-> GetColumnLetter(col),
                       row          |-> row + 1,
                       formula      |-> IF cellFormula # cellValue
                                        THEN cellFormula ELSE Null,
                       value        |-> cellValue,
                       display_text |-> cellText]))

\* Mutant: the loops are nested the other way round, columns outermost.
RECURSIVE ConvertLoopColumnMajor(_, _, _, _, _)
ConvertLoopColumnMajor(range, sheetName, row, col, acc) ==
    IF col >= range.columnCount THEN acc
    ELSE IF row >= range.rowCount
    THEN ConvertLoopColumnMajor(range, sheetName, 0, col + 1, acc)
    ELSE LET cellValue   == range.values[row][col]
             cellFormula == range.formulas[row][col]
             cellText    == range.text[row][col]
         IN  IF SkipCell(cellValue, cellFormula, cellText)
             THEN ConvertLoopColumnMajor(range, sheetName, row + 1, col, acc)
             ELSE ConvertLoopColumnMajor(range, sheetName, row + 1, col,
                    Append(acc,
                      [sheet_name   |-> sheetName,
                       column       |-> GetColumnLetter(col),
                       row          |-> row + 1,
                       formula      |-> IF cellFormula # cellValue
                                        THEN cellFormula ELSE Null,
                       value        |-> cellValue,
                       display_text |-> cellText]))

ConvertRangeColumnMajor(range, sheetName) ==
    ConvertLoopColumnMajor(range, sheetName, 0, 0, <<>>)

\* Mutant: the formula field always takes the host's formula entry.
RECURSIVE ConvertLoopFormulaAlways(_, _, _, _, _)
ConvertLoopFormulaAlways(range, sheetName, row, col, acc) ==
    IF row >= range.rowCount THEN acc
    ELSE IF col >= range.columnCount
    THEN ConvertLoopFormulaAlways(range, sheetName, row + 1, 0, acc)
    ELSE LET cellValue   == range.values[row][col]
             cellFormula == range.formulas[row][col]
             cellText    == range.text[row][col]
         IN  IF SkipCell(cellValue, cellFormula, cellText)
             THEN ConvertLoopFormulaAlways(range, sheetName, row, col + 1, acc)
             ELSE ConvertLoopFormulaAlways(range, sheetName, row, col + 1,
                    Append(acc,
                      [sheet_name   |-> sheetName,
                       column       |-> GetColumnLetter(col),
                       row          |-> row + 1,
                       formula      |-> cellFormula,
                       value        |-> cellValue,
                       display_text |-> cellText]))

ConvertRangeFormulaAlways(range, sheetName) ==
    ConvertLoopFormulaAlways(range, sheetName, 0, 0, <<>>)

\* convertRangeToCellData(range, sheetName), lines 568-602.
ConvertRangeToCellData(range, sheetName) ==
    ConvertLoop(range, sheetName, 0, 0, <<>>)

\* The sheet that worksheets.getItem(worksheetName) finds, line 541.
SheetNamed(worksheetName) ==
    CHOOSE k \in 1..Len(workbook) : workbook[k].name = worksheetName

\* getUsedRangeData(worksheetName), lines 538-560: [] when the host API
\* throws (catch of lines 556-559) or when there is no used range (lines
\* 544-547), else the converted range.
GetUsedRangeData(worksheetName) ==
    LET sheet == workbook[SheetNamed(worksheetName)]
    IN  IF sheet.status = "ok"
        THEN ConvertRangeToCellData(sheet.range, worksheetName)
        ELSE <<>>

\* The loads getUsedRangeData(worksheetName) gets from the host, lines
\* 549-550: one load of the whole used range (values, formulas, text,
\* rowCount, columnCount), none when the host API throws or there is no
\* used range.
RangeLoadsOf(worksheetName) ==
    LET sheet == workbook[SheetNamed(worksheetName)]
    IN  IF sheet.status = "ok"
        THEN <<[sheet_name  |-> worksheetName,
                firstRow    |-> 0,
                rowCount    |-> sheet.range.rowCount,
                columnCount |-> sheet.range.columnCount]>>
        ELSE <<>>

\* What getWorksheetNames() returns when the host API does not throw, line 408.
ListedSheets == [k \in 1..Len(workbook) |-> [sheet_name |-> workbook[k].name]]

\* getWorksheetNames(), lines 401-414: [] when the host API throws.
GetWorksheetNames(hostThrows) == IF hostThrows THEN <<>> ELSE ListedSheets

\* extractAllWorksheetData, lines 623-627: the sheet names are listed.
ExtractStart(hostThrows) ==
    /\ pc = "extract_call"
    /\ worksheetNames' = GetWorksheetNames(hostThrows)
    /\ allCellData' = <<>>
    /\ rangeLoads' = <<>>
    /\ sheetIdx' = 0
    /\ pc' = "extract_loop"
    /\ UNCHANGED <<workbook, sessionVars, configVars, sideVars>>
    /\ UNCHANGED <<cellData, batchSize, progressCallback, batches, i,
                   successfulBatches, failedBatches, errors, inFlight,
                   deliveries, responses, events, summary>>

\* Mutant: a host error on a sheet is rethrown and ends the extraction.
ExtractSheetRethrows ==
    /\ pc = "extract_loop"
    /\ sheetIdx < Len(worksheetNames)
    /\ LET sheet == worksheetNames[sheetIdx + 1]
       IN  IF workbook[SheetNamed(sheet.sheet_name)].status = "error"
           THEN /\ pc' = "extract_threw"
                /\ UNCHANGED <<allCellData, rangeLoads, sheetIdx>>
           ELSE /\ allCellData' = allCellData \o GetUsedRangeData(sheet.sheet_name)
                /\ rangeLoads' = rangeLoads \o RangeLoadsOf(sheet.sheet_name)
                /\ sheetIdx' = sheetIdx + 1
                /\ UNCHANGED pc
    /\ UNCHANGED <<workbook, worksheetNames, sessionVars, configVars, sideVars>>
    /\ UNCHANGED <<cellData, batchSize, progressCallback, batches, i,
                   successfulBatches, failedBatches, errors, inFlight,
                   deliveries, responses, events, summary>>

\* Lines 629-633: one iteration of the for-of loop over worksheetNames.
ExtractSheet ==
    /\ pc = "extract_loop"
    /\ sheetIdx < Len(worksheetNames)
    /\ LET sheet == worksheetNames[sheetIdx + 1]
       IN  /\ allCellData' = allCellData \o GetUsedRangeData(sheet.sheet_name)
           /\ rangeLoads' = rangeLoads \o RangeLoadsOf(sheet.sheet_name)
    /\ sheetIdx' = sheetIdx + 1
    /\ UNCHANGED <<workbook, worksheetNames, sessionVars, configVars, sideVars>>
    /\ UNCHANGED <<cellData, batchSize, progressCallback, batches, pc, i,
                   successfulBatches, failedBatches, errors, inFlight,
                   deliveries, responses, events, summary>>

\* Lines 635-636: the loop is over, allCellData is returned.
ExtractReturn ==
    /\ pc = "extract_loop"
    /\ sheetIdx >= Len(worksheetNames)
    /\ pc' = "extract_done"
    /\ UNCHANGED <<extractVars, sessionVars, configVars, sideVars>>
    /\ UNCHANGED <<cellData, batchSize, progressCallback, batches, i,
                   successfulBatches, failedBatches, errors, inFlight,
                   deliveries, responses, events, summary>>

\* A call getColumnLetter(columnIndex) about to run.
InitColumnLetter ==
    /\ columnIndexArg \in 0..MaxColumnIndex
    /\ pc = "letter_call"
    /\ workbook = <<>>
    /\ caller = "none"
    /\ cellData = <<>>
    /\ batchSize = DefaultBatchSize
    /\ progressCallback = FALSE
    /\ NotStarted
    /\ NoExtraction
    /\ NoSession
    /\ NoConfig
    /\ fileId = Null
    /\ chatPc = <<>>
    /\ chatRequests = <<>>
    /\ rerun = NoRerun
    /\ cellDataExtracted = FALSE

\* Lines 609-616: the call returns its letters.
CallGetColumnLetter ==
    /\ pc = "letter_call"
    /\ result' = <<GetColumnLetter(columnIndexArg)>>
    /\ pc' = "letter_done"
    /\ UNCHANGED <<caller, currentFileId, shown, isLoading, disabled, worksheetData,
                   initResponse>>
    /\ UNCHANGED <<extractVars, configVars, sideVars>>
    /\ UNCHANGED transmitVarsButPc

NextColumnLetter == CallGetColumnLetter

SpecColumnLetter == InitColumnLetter /\ [][NextColumnLetter]_vars

\* A call getColumnLetter(columnIndex) at line 610: columnLetter is '', the
\* while loop is about to test its condition. result holds columnLetter.
InitColumnLetterLoop ==
    /\ columnIndexArg \in 0..MaxColumnIndex
    /\ pc = "letter_loop"
    /\ workbook = <<>>
    /\ caller = "none"
    /\ cellData = <<>>
    /\ batchSize = DefaultBatchSize
    /\ progressCallback = FALSE
    /\ NotStarted
    /\ NoExtraction
    /\ currentFileId = Null
    /\ shown = <<>>
    /\ isLoading = FALSE
    /\ disabled = NoneDisabled
    /\ worksheetData = <<>>
    /\ initResponse = "none"
    /\ result = <<"">>
    /\ NoConfig
    /\ fileId = Null
    /\ chatPc = <<>>
    /\ chatRequests = <<>>
    /\ rerun = NoRerun
    /\ cellDataExtracted = FALSE

\* Mutant: the index is divided by 26 and not decremented.
LetterStepWithoutDecrement ==
    /\ pc = "letter_loop"
    /\ columnIndexArg >= 0
    /\ result' = <<ColumnLetters[(columnIndexArg % 26) + 1] \o result[1]>>
    /\ columnIndexArg' = columnIndexArg \div 26
    /\ UNCHANGED <<caller, currentFileId, shown, isLoading, disabled, worksheetData,
                   initResponse>>
    /\ UNCHANGED <<extractVars, configVars, fileId, chatPc, chatRequests,
                   rerun, cellDataExtracted>>
    /\ UNCHANGED transmitVars

\* Lines 611-614: one iteration of the while loop.
LetterStep ==
    /\ pc = "letter_loop"
    /\ columnIndexArg >= 0
    /\ result' = <<ColumnLetters[(columnIndexArg % 26) + 1] \o result[1]>>
    /\ columnIndexArg' = (columnIndexArg \div 26) - 1
    /\ UNCHANGED <<caller, currentFileId, shown, isLoading, disabled, worksheetData,
                   initResponse>>
    /\ UNCHANGED <<extractVars, configVars, fileId, chatPc, chatRequests,
                   rerun, cellDataExtracted>>
    /\ UNCHANGED transmitVars

\* Lines 611 and 615: the condition is false, columnLetter is returned.
LetterReturn ==
    /\ pc = "letter_loop"
    /\ columnIndexArg < 0
    /\ pc' = "letter_done"
    /\ UNCHANGED <<caller, currentFileId, shown, isLoading, disabled, worksheetData,
                   initResponse, result>>
    /\ UNCHANGED <<extractVars, configVars, sideVars>>
    /\ UNCHANGED transmitVarsButPc

NextColumnLetterLoop ==
    \/ LetterStep
    \/ LetterReturn

\* The loop of getColumnLetter step by step; the loop is synchronous code
\* that runs on whenever a step is possible.
SpecColumnLetterLoop ==
    InitColumnLetterLoop /\ [][NextColumnLetterLoop]_vars /\ WF_vars(NextColumnLetterLoop)

\* A call extractAllWorksheetData() about to run on some workbook.
InitExtract ==
    /\ workbook \in Workbooks
    /\ caller = "none"
    /\ pc = "extract_call"
    /\ cellData = <<>>
    /\ batchSize = DefaultBatchSize
    /\ progressCallback = FALSE
    /\ NotStarted
    /\ NoExtraction
    /\ NoSession
    /\ NoConfig
    /\ fileId = Null
    /\ NoSide

NextExtract ==
    \/ \E hostThrows \in BOOLEAN : ExtractStart(hostThrows)
    \/ ExtractSheet
    \/ ExtractReturn

SpecExtract == InitExtract /\ [][NextExtract]_vars

\* The loaded range object of lines 549-550 for a used range whose top-left
\* cell is rowIndex rows below and columnIndex columns right of A1: the
\* loaded address tells where the range lies, the arrays values, formulas
\* and text are indexed from 0 whatever the address is.
MkRangeAt(rowIndex, columnIndex, rowCount, columnCount, grid) ==
    [address     |-> [rowIndex |-> rowIndex, columnIndex |-> columnIndex],
     rowCount    |-> rowCount,
     columnCount |-> columnCount,
     values      |-> [r \in 0..(rowCount - 1) |->
                        [c \in 0..(columnCount - 1) |-> grid[r][c].value]],
     formulas    |-> [r \in 0..(rowCount - 1) |->
                        [c \in 0..(columnCount - 1) |-> grid[r][c].formula]],
     text        |-> [r \in 0..(rowCount - 1) |->
                        [c \in 0..(columnCount - 1) |-> grid[r][c].text]]]

\* The workbooks of one sheet whose used range starts at A1 or up to
\* MaxOffset rows and columns away from it.
OffsetWorkbooks ==
    UNION { { <<[name   |-> "Sheet1",
                 status |-> "ok",
                 range  |-> MkRangeAt(r0, c0, rc, cc, grid)]>> :
                grid \in [0..(rc - 1) -> [0..(cc - 1) -> HostCells]],
                r0 \in 0..MaxOffset, c0 \in 0..MaxOffset } :
            rc \in 1..MaxRows, cc \in 1..MaxCols }

\* A call extractAllWorksheetData() about to run on a workbook whose used
\* range lies anywhere near the top-left corner of its sheet.
InitExtractAt ==
    /\ workbook \in OffsetWorkbooks
    /\ caller = "none"
    /\ pc = "extract_call"
    /\ cellData = <<>>
    /\ batchSize = DefaultBatchSize
    /\ progressCallback = FALSE
    /\ NotStarted
    /\ NoExtraction
    /\ NoSession
    /\ NoConfig
    /\ fileId = Null
    /\ NoSide

SpecExtractAt == InitExtractAt /\ [][NextExtract]_vars

\* ----------------------------------------------------------- initializeChat
\* The workbooks the session functions are run on: plain sheets only, under
\* two namings, one of which has a sheet named like an inherited property.
SheetOrders == {<<"Sheet1", "2024", "Data">>, <<"Data", "constructor", "Sheet1">>}

SessionWorkbooksOf(n) ==
    { [k \in 1..n |-> [name   |-> order[k],
                       status |-> plain[k].status,
                       range  |-> plain[k].range]] :
        order \in SheetOrders, plain \in [1..n -> PlainSheetStates] }

SessionWorkbooks == UNION {SessionWorkbooksOf(n) : n \in 0..MaxSheets}

\* The file_id of the /initialize response: an id, or undefined when the
\* response body has no such field.
FileIds == {"file-1", Undefined}

\* if (currentFileId ...), lines 63, 252, 284.
Truthy(x) == x \notin {Null, Undefined, ""}

\* setLoadingState(isLoading), lines 176-192: the flag and the disabled
\* property of both controls are written together.
SetLoadingState(flag) ==
    /\ isLoading' = flag
    /\ disabled' = [sendButton |-> flag, messageInput |-> flag]

\* addMessage(text, 'ai') and showError(message); the text is named by a key.
AddMessage(key) == Append(shown, [by |-> "addMessage", text |-> key])
ShowError(key) == Append(shown, [by |-> "showError", text |-> key])

\* Office.onReady has just called initializeChat().
InitChat ==
    /\ workbook \in SessionWorkbooks
    /\ caller = "initializeChat"
    /\ pc = "init_call"
    /\ cellData = <<>>
    /\ batchSize = DefaultBatchSize
    /\ progressCallback = FALSE
    /\ NotStarted
    /\ NoExtraction
    /\ NoSession
    /\ NoConfig
    /\ fileId = Null
    /\ NoSide

\* Lines 26-48: the listeners, setLoadingState(true), the workbook name, the
\* worksheet names, the call of extractAllWorksheetData. A throw of
\* getSimpleWorkbookName goes to the catch of lines 85-87 and the finally.
InitChatStart(nameThrows, listThrows) ==
    /\ pc = "init_call"
    /\ caller = "initializeChat"
    /\ IF nameThrows
       THEN /\ shown' = ShowError("Failed to initialize workbook data")
            /\ SetLoadingState(FALSE)
            /\ pc' = "init_done"
            /\ UNCHANGED worksheetData
       ELSE /\ worksheetData' = GetWorksheetNames(listThrows)
            /\ SetLoadingState(TRUE)
            /\ pc' = "extract_call"
            /\ UNCHANGED shown
    /\ UNCHANGED <<caller, currentFileId, initResponse, result>>
    /\ UNCHANGED <<extractVars, configVars, sideVars>>
    /\ UNCHANGED <<cellData, batchSize, progressCallback, batches, i,
                   successfulBatches, failedBatches, errors, inFlight,
                   deliveries, responses, events, summary>>

\* Lines 48-58: extractAllWorksheetData returned cellData; sendWorkbookData
\* starts the POST to /initialize (lines 422-429).
SendWorkbookData ==
    /\ pc = "extract_done"
    /\ caller = "initializeChat"
    /\ cellData' = allCellData
    /\ initResponse' = "pending"
    /\ pc' = "init_awaiting"
    /\ UNCHANGED <<caller, currentFileId, shown, isLoading, disabled, worksheetData, result>>
    /\ UNCHANGED <<extractVars, configVars, sideVars>>
    /\ UNCHANGED <<batchSize, progressCallback, batches, i,
                   successfulBatches, failedBatches, errors, inFlight,
                   deliveries, responses, events, summary>>

\* Lines 435-437 and 59-91: /initialize answered ok with a body that parsed.
\* With a file id and cells transmitAllCellData(currentFileId, cellData,
\* showProgress) is called; with no cells the 'no cell data' message is
\* shown; else nothing is shown; the last two end in the finally.
InitializeResolved(file_id) ==
    /\ pc = "init_awaiting"
    /\ initResponse' = "ok"
    /\ currentFileId' = file_id
    /\ IF Truthy(file_id) /\ Len(cellData) > 0
       THEN /\ SetLoadingState(TRUE)
            /\ progressCallback' = TRUE
            /\ fileId' = file_id
            /\ pc' = "called"
            /\ UNCHANGED shown
       ELSE /\ shown' = IF Len(cellData) = 0
                        THEN AddMessage("Workbook initialized. No cell data found")
                        ELSE shown
            /\ SetLoadingState(FALSE)
            /\ pc' = "init_done"
            /\ UNCHANGED <<progressCallback, fileId>>
    /\ UNCHANGED <<caller, worksheetData, result>>
    /\ UNCHANGED <<extractVars, configVars, sideVarsButFileId>>
    /\ UNCHANGED <<cellData, batchSize, batches, i,
                   successfulBatches, failedBatches, errors, inFlight,
                   deliveries, responses, events, summary>>

\* Mutant: the failure of /initialize is only logged and the cell data is
\* transmitted all the same.
InitializeFailedGoesOn(kind) ==
    /\ pc = "init_awaiting"
    /\ initResponse' = kind
    /\ IF Len(cellData) > 0
       THEN /\ SetLoadingState(TRUE)
            /\ progressCallback' = TRUE
            /\ pc' = "called"
            /\ UNCHANGED shown
       ELSE /\ shown' = ShowError("Failed to initialize workbook data")
            /\ SetLoadingState(FALSE)
            /\ pc' = "init_done"
            /\ UNCHANGED progressCallback
    /\ UNCHANGED <<caller, currentFileId, worksheetData, result>>
    /\ UNCHANGED <<extractVars, configVars, sideVars>>
    /\ UNCHANGED <<cellData, batchSize, batches, i,
                   successfulBatches, failedBatches, errors, inFlight,
                   deliveries, responses, events, summary>>

\* Lines 431-433, 439-442 and 85-91: sendWorkbookData threw (fetch rejected,
\* status not ok, body did not parse); the catch shows the error, the
\* finally clears the loading state.
InitializeFailed(kind) ==
    /\ pc = "init_awaiting"
    /\ initResponse' = kind
    /\ shown' = ShowError("Failed to initialize workbook data")
    /\ SetLoadingState(FALSE)
    /\ pc' = "init_done"
    /\ UNCHANGED <<caller, currentFileId, worksheetData, result>>
    /\ UNCHANGED <<extractVars, configVars, sideVars>>
    /\ UNCHANGED transmitVarsButPc

\* Lines 68-76 and 88-91: transmitAllCellData returned its summary.
TransmitReturned ==
    /\ pc = "done"
    /\ caller = "initializeChat"
    /\ shown' = IF summary[1].success
                 THEN AddMessage("Workbook ready")
                 ELSE AddMessage("Workbook partially ready")
    /\ SetLoadingState(FALSE)
    /\ pc' = "init_done"
    /\ UNCHANGED <<caller, currentFileId, worksheetData, initResponse, result>>
    /\ UNCHANGED <<extractVars, configVars, sideVars>>
    /\ UNCHANGED transmitVarsButPc

\* Lines 77-80 and 88-91: transmitAllCellData threw.
TransmitThrew ==
    /\ pc = "threw"
    /\ caller = "initializeChat"
    /\ shown' = AddMessage("cell data transmission failed")
    /\ SetLoadingState(FALSE)
    /\ pc' = "init_done"
    /\ UNCHANGED <<caller, currentFileId, worksheetData, initResponse, result>>
    /\ UNCHANGED <<extractVars, configVars, sideVars>>
    /\ UNCHANGED transmitVarsButPc

NextInitChat ==
    \/ \E nameThrows, listThrows \in BOOLEAN : InitChatStart(nameThrows, listThrows)
    \/ \E hostThrows \in BOOLEAN : ExtractStart(hostThrows)
    \/ ExtractSheet
    \/ ExtractReturn
    \/ SendWorkbookData
    \/ \E file_id \in FileIds : InitializeResolved(file_id)
    \/ \E kind \in FailureKinds : InitializeFailed(kind)
    \/ Prepare
    \/ SendBatch
    \/ DeliveryAccepted
    \/ \E kind \in FailureKinds : DeliveryFailed(kind)
    \/ DelayElapsed
    \/ Finish
    \/ TransmitReturned
    \/ TransmitThrew

SpecInitChat == InitChat /\ [][NextInitChat]_vars

\* ------------------------------------------- extractAndTransmitWorkbookData
\* A call extractAndTransmitWorkbookData(fileId, progressCallback) about to
\* run, in a session that has its file id.
InitExtractAndTransmit ==
    /\ workbook \in SessionWorkbooks
    /\ caller = "extractAndTransmit"
    /\ pc = "eat_call"
    /\ currentFileId = "file-1"
    /\ progressCallback \in BOOLEAN
    /\ cellData = <<>>
    /\ batchSize = DefaultBatchSize
    /\ NotStarted
    /\ NoExtraction
    /\ shown = <<>>
    /\ isLoading = FALSE
    /\ disabled = NoneDisabled
    /\ worksheetData = <<>>
    /\ initResponse = "ok"
    /\ result = <<>>
    /\ NoConfig
    /\ fileId = "file-1"
    /\ NoSide

\* Lines 835-844: the 'extraction_start' event and the call of
\* extractAllWorksheetData.
ExtractAndTransmitStart ==
    /\ pc = "eat_call"
    /\ caller = "extractAndTransmit"
    /\ events' = Emit([stage   |-> "extraction_start",
                       message |-> "Starting cell data extraction..."])
    /\ pc' = "extract_call"
    /\ UNCHANGED <<cellData, batchSize, progressCallback, batches, i,
                   successfulBatches, failedBatches, errors, inFlight,
                   deliveries, responses, summary>>
    /\ UNCHANGED outerVars

\* Lines 844-860: extractAllWorksheetData returned cellData. With no cells
\* the short result of line 848 is returned; else the 'extraction_complete'
\* event is emitted and transmitAllCellData is called.
ExtractAndTransmitExtracted ==
    /\ pc = "extract_done"
    /\ caller = "extractAndTransmit"
    /\ cellData' = allCellData
    /\ IF Len(allCellData) = 0
       THEN /\ result' = <<[success    |-> TRUE,
                            totalCells |-> 0,
                            message    |-> "No data to transmit"]>>
            /\ pc' = "eat_done"
            /\ UNCHANGED events
       ELSE /\ events' = Emit([stage      |-> "extraction_complete",
                               totalCells |-> Len(allCellData),
                               message    |-> "Extracted cells, starting transmission..."])
            /\ pc' = "called"
            /\ UNCHANGED result
    /\ UNCHANGED <<batchSize, progressCallback, batches, i,
                   successfulBatches, failedBatches, errors, inFlight,
                   deliveries, responses, summary>>
    /\ UNCHANGED <<caller, currentFileId, shown, isLoading, disabled, worksheetData,
                   initResponse>>
    /\ UNCHANGED <<extractVars, configVars, sideVars>>

\* Line 860: the summary of transmitAllCellData is returned.
ExtractAndTransmitReturned ==
    /\ pc = "done"
    /\ caller = "extractAndTransmit"
    /\ result' = summary
    /\ pc' = "eat_done"
    /\ UNCHANGED transmitVarsButPc
    /\ UNCHANGED <<caller, currentFileId, shown, isLoading, disabled, worksheetData,
                   initResponse>>
    /\ UNCHANGED <<extractVars, configVars, sideVars>>

\* Lines 862-871: transmitAllCellData threw; the 'error' event, rethrow.
ExtractAndTransmitThrew ==
    /\ pc = "threw"
    /\ caller = "extractAndTransmit"
    /\ events' = Emit([stage |-> "error", error |-> "TypeError"])
    /\ pc' = "eat_threw"
    /\ UNCHANGED <<cellData, batchSize, progressCallback, batches, i,
                   successfulBatches, failedBatches, errors, inFlight,
                   deliveries, responses, summary>>
    /\ UNCHANGED outerVars

NextExtractAndTransmit ==
    \/ ExtractAndTransmitStart
    \/ \E hostThrows \in BOOLEAN : ExtractStart(hostThrows)
    \/ ExtractSheet
    \/ ExtractReturn
    \/ ExtractAndTransmitExtracted
    \/ Prepare
    \/ SendBatch
    \/ DeliveryAccepted
    \/ \E kind \in FailureKinds : DeliveryFailed(kind)
    \/ DelayElapsed
    \/ Finish
    \/ ExtractAndTransmitReturned
    \/ ExtractAndTransmitThrew

SpecExtractAndTransmit == InitExtractAndTransmit /\ [][NextExtractAndTransmit]_vars

\* ------------------------------------------------------ fetchWorkbookConfig
\* An object without properties, {}.
EmptyObject == [field \in {} |-> Null]

\* Bodies the /config endpoint can answer with: all three limits, other
\* values, a limit missing, no limit at all.
ServerConfigs ==
    {[maxRowsPerBatch |-> 250, maxTotalRows |-> 5000, maxTotalCols |-> 100],
     [maxRowsPerBatch |-> 500, maxTotalRows |-> 10000, maxTotalCols |-> 200],
     [maxTotalRows |-> 5000, maxTotalCols |-> 100],
     EmptyObject}

\* Configs with which a used range of the modelled sizes is over a limit:
\* windows of one row, or one row and one column in total; and one that no
\* modelled range exceeds.
LimitConfigs ==
    {[maxRowsPerBatch |-> 1, maxTotalRows |-> 5000, maxTotalCols |-> 100],
     [maxRowsPerBatch |-> 250, maxTotalRows |-> 1, maxTotalCols |-> 1],
     [maxRowsPerBatch |-> 250, maxTotalRows |-> 5000, maxTotalCols |-> 100]}

\* A call extractAllWorksheetData() about to run in a session whose
\* fetchWorkbookConfig was answered with a config of limits.
InitExtractWithConfig ==
    /\ workbook \in Workbooks
    /\ caller = "none"
    /\ pc = "extract_call"
    /\ cellData = <<>>
    /\ batchSize = DefaultBatchSize
    /\ progressCallback = FALSE
    /\ NotStarted
    /\ NoExtraction
    /\ NoSession
    /\ workbookConfig \in LimitConfigs
    /\ configReturn = <<workbookConfig>>
    /\ configResponses = <<"ok">>
    /\ fileId = Null
    /\ NoSide

SpecExtractWithConfig == InitExtractWithConfig /\ [][NextExtract]_vars

\* A session in which fetchWorkbookConfig has not been called yet.
InitConfig ==
    /\ workbook = <<>>
    /\ caller = "fetchWorkbookConfig"
    /\ pc = "config_idle"
    /\ cellData = <<>>
    /\ batchSize = DefaultBatchSize
    /\ progressCallback = FALSE
    /\ NotStarted
    /\ NoExtraction
    /\ NoSession
    /\ NoConfig
    /\ fileId = Null
    /\ NoSide

\* Lines 369-371: a call of fetchWorkbookConfig starts the GET of /config.
FetchWorkbookConfig ==
    /\ pc = "config_idle"
    /\ Len(configResponses) < MaxFetches
    /\ configReturn' = <<>>
    /\ pc' = "config_awaiting"
    /\ UNCHANGED <<workbookConfig, configResponses>>
    /\ UNCHANGED <<extractVars, sessionVars, sideVars>>
    /\ UNCHANGED transmitVarsButPc

\* Lines 372-377: the response is ok and its body parsed; it is stored and
\* returned.
ConfigResolved(body) ==
    /\ pc = "config_awaiting"
    /\ configResponses' = Append(configResponses, "ok")
    /\ workbookConfig' = body
    /\ configReturn' = <<body>>
    /\ pc' = "config_idle"
    /\ UNCHANGED <<extractVars, sessionVars, sideVars>>
    /\ UNCHANGED transmitVarsButPc

\* Lines 372-374 and 378-382: fetch rejected, the status is not ok or the
\* body did not parse; the catch stores and returns {}.
ConfigFailed(kind) ==
    /\ pc = "config_awaiting"
    /\ configResponses' = Append(configResponses, kind)
    /\ workbookConfig' = EmptyObject
    /\ configReturn' = <<EmptyObject>>
    /\ pc' = "config_idle"
    /\ UNCHANGED <<extractVars, sessionVars, sideVars>>
    /\ UNCHANGED transmitVarsButPc

NextConfig ==
    \/ FetchWorkbookConfig
    \/ \E body \in ServerConfigs : ConfigResolved(body)
    \/ \E kind \in FailureKinds : ConfigFailed(kind)

SpecConfig == InitConfig /\ [][NextConfig]_vars

\* ------------------------------------------------------------ the session
\* What the chat and the pass started from the console leave alone: the
\* initial pass and the config.
initialPassVars == <<transmitVars, extractVars, configVars, caller,
                     currentFileId, worksheetData, initResponse, result,
                     fileId, columnIndexArg>>

\* The number of handleSendMessage calls that got past line 101.
ChatsStarted ==
    Len(chatRequests) + Cardinality({k \in 1..Len(chatPc) : chatPc[k] = "context"})

\* The sequence without its k-th element.
Without(seq, k) == SubSeq(seq, 1, k - 1) \o SubSeq(seq, k + 1, Len(seq))

\* Mutant: the handler does not look at chatState.isLoading.
HandleSendMessageWhileLoading ==
    /\ pc # "init_call"
    /\ ChatsStarted < MaxChats
    /\ shown' = Append(shown, [by |-> "addMessage", text |-> "user message"])
    /\ SetLoadingState(TRUE)
    /\ chatPc' = Append(chatPc, "context")
    /\ UNCHANGED <<chatRequests, rerun, cellDataExtracted>>
    /\ UNCHANGED initialPassVars

\* Lines 97-114: the click or Enter listener (attached at lines 29-35) runs
\* handleSendMessage with a message; it returns at line 101 while
\* chatState.isLoading, else shows the message, sets the loading state and
\* awaits getExcelContext (line 454).
HandleSendMessage ==
    /\ pc # "init_call"
    /\ ~isLoading
    /\ ChatsStarted < MaxChats
    /\ shown' = Append(shown, [by |-> "addMessage", text |-> "user message"])
    /\ SetLoadingState(TRUE)
    /\ chatPc' = Append(chatPc, "context")
    /\ UNCHANGED <<chatRequests, rerun, cellDataExtracted>>
    /\ UNCHANGED initialPassVars

\* Mutant: the loading state is cleared as soon as the POST to /chat has
\* started.
ChatFetchClearsLoading(k) ==
    /\ chatPc[k] = "context"
    /\ chatRequests' = Append(chatRequests, [file_id |-> currentFileId])
    /\ chatPc' = [chatPc EXCEPT ![k] = "awaiting"]
    /\ SetLoadingState(FALSE)
    /\ UNCHANGED <<shown, rerun, cellDataExtracted>>
    /\ UNCHANGED initialPassVars

\* Lines 457-474: the payload takes file_id from currentFileId and the POST
\* to /chat starts.
ChatFetch(k) ==
    /\ chatPc[k] = "context"
    /\ chatRequests' = Append(chatRequests, [file_id |-> currentFileId])
    /\ chatPc' = [chatPc EXCEPT ![k] = "awaiting"]
    /\ UNCHANGED <<shown, isLoading, disabled, rerun, cellDataExtracted>>
    /\ UNCHANGED initialPassVars

\* Lines 476-503 and 115-122: the response or the error is shown and the
\* finally clears the loading state.
ChatAnswered(k, ok) ==
    /\ chatPc[k] = "awaiting"
    /\ shown' = AddMessage(IF ok THEN "AI response"
                                 ELSE "Sorry, I encountered an error")
    /\ SetLoadingState(FALSE)
    /\ chatPc' = Without(chatPc, k)
    /\ UNCHANGED <<chatRequests, rerun, cellDataExtracted>>
    /\ UNCHANGED initialPassVars

\* The for-of loop of extractAllWorksheetData from the k-th listed sheet on,
\* lines 629-633.
RECURSIVE ExtractLoop(_, _, _)
ExtractLoop(names, k, acc) ==
    IF k > Len(names) THEN acc
    ELSE ExtractLoop(names, k + 1, acc \o GetUsedRangeData(names[k].sheet_name))

\* extractAllWorksheetData(), lines 622-642, as one value.
ExtractAllWorksheetData(hostThrows) ==
    ExtractLoop(GetWorksheetNames(hostThrows), 1, <<>>)

\* The texts of lines 268-275 and 301-308.
RerunTexts(fn) ==
    IF fn = "testCellDataExtraction"
    THEN [ok      |-> "Manual extraction completed successfully",
          partial |-> "Manual extraction completed with issues",
          error   |-> "Cell data extraction failed"]
    ELSE [ok      |-> "Re-extraction completed",
          partial |-> "Re-extraction partially completed",
          error   |-> "Forced re-extraction failed"]

RerunFunctions == {"testCellDataExtraction", "forceReExtractCellData"}

\* Mutant: the functions do not look at currentFileId.
CallReExtractWithoutFileId(fn) ==
    /\ rerun.pc \in {"idle", "done"}
    /\ rerun.runs < MaxReruns
    /\ rerun' = [NoRerun EXCEPT !.pc = "extracting",
                                !.runs = rerun.runs + 1,
                                !.caller = fn,
                                !.fileId = currentFileId]
    /\ cellDataExtracted' = IF fn = "forceReExtractCellData"
                            THEN FALSE ELSE cellDataExtracted
    /\ UNCHANGED <<shown, isLoading, disabled, chatPc, chatRequests>>
    /\ UNCHANGED initialPassVars

\* Lines 250-260 and 282-293: window.testCellDataExtraction() or
\* window.forceReExtractCellData() is called from the console. Without a
\* file id the error is shown and the function returns; else
\* extractAndTransmitWorkbookData(currentFileId, showProgress) starts a
\* pass with fresh locals.
CallReExtract(fn) ==
    /\ rerun.pc \in {"idle", "done"}
    /\ rerun.runs < MaxReruns
    /\ IF ~Truthy(currentFileId)
       THEN /\ rerun' = [NoRerun EXCEPT !.pc = "done",
                                        !.runs = rerun.runs + 1,
                                        !.caller = fn]
            /\ shown' = ShowError("No file ID available")
            /\ UNCHANGED cellDataExtracted
       ELSE /\ rerun' = [NoRerun EXCEPT !.pc = "extracting",
                                        !.runs = rerun.runs + 1,
                                        !.caller = fn,
                                        !.fileId = currentFileId]
            /\ cellDataExtracted' = IF fn = "forceReExtractCellData"
                                    THEN FALSE ELSE cellDataExtracted
            /\ UNCHANGED shown
    /\ UNCHANGED <<isLoading, disabled, chatPc, chatRequests>>
    /\ UNCHANGED initialPassVars

\* Lines 844-860 and 740-760 of the pass, with lines 262-276 and 295-310 of
\* its caller: the extraction returned. With no cells the short result of
\* line 848 is returned and reported; when batchCellData throws the error
\* is shown; else the batches are ready for the loop.
RerunExtracted(hostThrows) ==
    /\ rerun.pc = "extracting"
    /\ LET cells == ExtractAllWorksheetData(hostThrows)
           texts == RerunTexts(rerun.caller)
       IN  IF Len(cells) = 0
           THEN /\ rerun' = [rerun EXCEPT
                               !.pc = "done",
                               !.result = <<[success    |-> TRUE,
                                             totalCells |-> 0,
                                             message    |-> "No data to transmit"]>>]
                /\ cellDataExtracted' = TRUE
                /\ shown' = AddMessage(texts.ok)
           ELSE IF GroupingThrows(cells)
           THEN /\ rerun' = [rerun EXCEPT !.pc = "done", !.cellData = cells]
                /\ cellDataExtracted' =
                      IF rerun.caller = "forceReExtractCellData"
                      THEN FALSE ELSE cellDataExtracted
                /\ shown' = ShowError(texts.error)
           ELSE /\ rerun' = [rerun EXCEPT
                               !.pc = "loop",
                               !.cellData = cells,
                               !.batches = BatchCellData(cells, DefaultBatchSize)]
                /\ UNCHANGED <<cellDataExtracted, shown>>
    /\ UNCHANGED <<isLoading, disabled, chatPc, chatRequests>>
    /\ UNCHANGED initialPassVars

\* Lines 762-781 of the pass: the POST of batch i starts.
RerunSendBatch ==
    /\ rerun.pc = "loop"
    /\ rerun.i < Len(rerun.batches)
    /\ rerun' = [rerun EXCEPT
                   !.pc = "awaiting",
                   !.deliveries = Append(@,
                       [file_id        |-> rerun.fileId,
                        batch          |-> rerun.i,
                        is_final_batch |-> rerun.i = Len(rerun.batches) - 1])]
    /\ UNCHANGED <<shown, isLoading, disabled, chatPc, chatRequests, cellDataExtracted>>
    /\ UNCHANGED initialPassVars

\* Lines 782-787 of the pass: the POST resolved ok.
RerunDeliveryAccepted ==
    /\ rerun.pc = "awaiting"
    /\ rerun' = IF rerun.i = Len(rerun.batches) - 1
                THEN [rerun EXCEPT !.pc = "loop",
                                   !.i = @ + 1,
                                   !.successfulBatches = @ + 1]
                ELSE [rerun EXCEPT !.pc = "delay",
                                   !.successfulBatches = @ + 1]
    /\ UNCHANGED <<shown, isLoading, disabled, chatPc, chatRequests, cellDataExtracted>>
    /\ UNCHANGED initialPassVars

\* Lines 789-800 of the pass: sendCellDataBatch threw.
RerunDeliveryFailed ==
    /\ rerun.pc = "awaiting"
    /\ rerun' = [rerun EXCEPT !.pc = "loop",
                              !.i = @ + 1,
                              !.failedBatches = @ + 1]
    /\ UNCHANGED <<shown, isLoading, disabled, chatPc, chatRequests, cellDataExtracted>>
    /\ UNCHANGED initialPassVars

\* Line 786 of the pass: the 100 ms timer fired.
RerunDelayElapsed ==
    /\ rerun.pc = "delay"
    /\ rerun' = [rerun EXCEPT !.pc = "loop", !.i = @ + 1]
    /\ UNCHANGED <<shown, isLoading, disabled, chatPc, chatRequests, cellDataExtracted>>
    /\ UNCHANGED initialPassVars

\* Lines 803-820 of the pass with lines 262-271 and 295-304 of its caller:
\* the summary is returned, cellDataExtracted takes its success flag and
\* the outcome is shown.
RerunFinish ==
    /\ rerun.pc = "loop"
    /\ rerun.i >= Len(rerun.batches)
    /\ LET success == rerun.failedBatches = 0
           texts   == RerunTexts(rerun.caller)
       IN  /\ rerun' = [rerun EXCEPT
                          !.pc = "done",
                          !.result = <<[totalCells        |-> Len(rerun.cellData),
                                        totalBatches      |-> Len(rerun.batches),
                                        successfulBatches |-> rerun.successfulBatches,
                                        failedBatches     |-> rerun.failedBatches,
                                        success           |-> success]>>]
           /\ cellDataExtracted' = success
           /\ shown' = AddMessage(IF success THEN texts.ok ELSE texts.partial)
    /\ UNCHANGED <<isLoading, disabled, chatPc, chatRequests>>
    /\ UNCHANGED initialPassVars

NextSession ==
    \/ NextInitChat
    \/ HandleSendMessage
    \/ \E k \in 1..Len(chatPc) : ChatFetch(k)
    \/ \E k \in 1..Len(chatPc), ok \in BOOLEAN : ChatAnswered(k, ok)
    \/ \E fn \in RerunFunctions : CallReExtract(fn)
    \/ \E hostThrows \in BOOLEAN : RerunExtracted(hostThrows)
    \/ RerunSendBatch
    \/ RerunDeliveryAccepted
    \/ RerunDeliveryFailed
    \/ RerunDelayElapsed
    \/ RerunFinish

\* The session from Office.onReady on: initializeChat, the chat, and a pass
\* started from the console.
SpecSession == InitChat /\ [][NextSession]_vars

\* A session some time after initializeChat returned: the workbook was empty
\* then, /initialize answered with or without a file_id, and the 'no cell
\* data' message was shown (lines 81-83); the user has edited the workbook
\* since, and cellDataExtracted is what the passes started from the console
\* so far have left in it.
InitRerun ==
    /\ workbook \in SessionWorkbooks
    /\ caller = "initializeChat"
    /\ pc = "init_done"
    /\ cellData = <<>>
    /\ batchSize = DefaultBatchSize
    /\ progressCallback = FALSE
    /\ NotStarted
    /\ NoExtraction
    /\ currentFileId \in FileIds
    /\ shown = <<[by |-> "addMessage", text |-> "Workbook initialized. No cell data found"]>>
    /\ isLoading = FALSE
    /\ disabled = NoneDisabled
    /\ worksheetData = <<>>
    /\ initResponse = "ok"
    /\ result = <<>>
    /\ NoConfig
    /\ fileId = Null
    /\ chatPc = <<>>
    /\ chatRequests = <<>>
    /\ rerun = NoRerun
    /\ cellDataExtracted \in BOOLEAN
    /\ columnIndexArg = 0

NextRerun ==
    \/ \E fn \in RerunFunctions : CallReExtract(fn)
    \/ \E hostThrows \in BOOLEAN : RerunExtracted(hostThrows)
    \/ RerunSendBatch
    \/ RerunDeliveryAccepted
    \/ RerunDeliveryFailed
    \/ RerunDelayElapsed
    \/ RerunFinish

\* The passes started from the console in a session whose initializeChat
\* has returned.
SpecRerun == InitRerun /\ [][NextRerun]_vars

\* ------------------------------------------------ properties of the batches
RECURSIVE TotalCellsIn(_)
TotalCellsIn(bs) ==
    IF bs = <<>> THEN 0 ELSE Len(Head(bs).cells) + TotalCellsIn(Tail(bs))

RECURSIVE ConcatCells(_)
ConcatCells(bs) ==
    IF bs = <<>> THEN <<>> ELSE Head(bs).cells \o ConcatCells(Tail(bs))

\* The places <<k, j>> at which the record c occurs in the batches.
PlacesOf(c) ==
    {p \in (1..Len(batches)) \X (1..Len(cellData)) :
        /\ p[2] <= Len(batches[p[1]].cells)
        /\ batches[p[1]].cells[p[2]] = c}

\* The records of the input list that belong to sheet s, in input order.
InputOfSheet(s) == SelectSeq(cellData, LAMBDA c : c.sheet_name = s)

\* The batches of sheet s, in the order batchCellData produced them.
BatchesOfSheet(s) == SelectSeq(batches, LAMBDA b : b.sheet_name = s)

Batched == pc = "batch_returned"

C2_BatchBounded ==
    Batched =>
        \A k \in 1..Len(batches) :
            /\ Len(batches[k].cells) >= 1
            /\ Len(batches[k].cells) <= batchSize
            /\ \A j \in 1..Len(batches[k].cells) :
                   batches[k].cells[j].sheet_name = batches[k].sheet_name

\* A sheet with more than N cells, N >= 2, interleaved with another sheet:
\* a full batch and a shorter one.
C2_Witness ==
    /\ Batched
    /\ batchSize >= 2
    /\ \E k \in 1..Len(batches) : Len(batches[k].cells) = batchSize
    /\ \E k \in 1..Len(batches) : Len(batches[k].cells) < batchSize
    /\ \E n \in 1..(Len(cellData) - 2) :
           /\ cellData[n].sheet_name = cellData[n + 2].sheet_name
           /\ cellData[n].sheet_name # cellData[n + 1].sheet_name

C4_BatchNumbering ==
    Batched =>
        \A s \in SheetNames :
            LET bs == BatchesOfSheet(s)
            IN  \A k \in 1..Len(bs) :
                    /\ bs[k].batch_number = k
                    /\ bs[k].total_cells = Len(InputOfSheet(s))
                    /\ bs[k].total_cells = TotalCellsIn(bs)

\* Two sheets, the first produced one with several batches: the numbering
\* restarts at 1 after a batch numbered 2 or more.
C4_Witness ==
    /\ Batched
    /\ \E k \in 1..(Len(batches) - 1) :
           /\ batches[k].batch_number >= 2
           /\ batches[k + 1].batch_number = 1
           /\ batches[k + 1].sheet_name # batches[k].sheet_name

\* --------------------------------------------- properties of the delivery
\* The positions in `responses` (and `deliveries`) of the failed deliveries.
FailedPositions == {k \in 1..Len(responses) : responses[k] # "ok"}

\* The position of the n-th failed delivery.
NthFailure(n) ==
    CHOOSE k \in FailedPositions :
        Cardinality({j \in FailedPositions : j <= k}) = n

\* C5: within one call of transmitAllCellData at most one POST to
\* /store-cell-data is pending, and the pending one is the latest started:
\* a delivery is started only when every earlier one has resolved or failed.
C5_OneDeliveryInFlight ==
    /\ Cardinality(inFlight) <= 1
    /\ inFlight \subseteq {Len(deliveries)}
    /\ Len(responses) + Cardinality(inFlight) = Len(deliveries)

\* The second delivery is pending after the first one has failed.
C5_Witness ==
    /\ Len(deliveries) = 2
    /\ inFlight = {2}
    /\ responses # <<>>
    /\ responses[1] # "ok"

\* C6: a failed delivery neither aborts the pass nor is retried: the
\* deliveries are those of batches 0, 1, 2, ... each once and in order, a
\* call that returned has attempted every batch and has a summary, and a
\* call that threw did so before any delivery was attempted.
C6_EveryBatchAttemptedOnce ==
    /\ \A k \in 1..Len(deliveries) : deliveries[k].batch = k - 1
    /\ pc = "done" => /\ Len(deliveries) = Len(batches)
                      /\ Len(responses) = Len(batches)
                      /\ Len(summary) = 1
    /\ pc = "threw" => deliveries = <<>>

\* A returned call over three batches whose first delivery failed.
C6_Witness ==
    /\ pc = "done"
    /\ Len(batches) = 3
    /\ responses[1] # "ok"
    /\ Len(deliveries) = 3

\* C7: every returned summary has successfulBatches + failedBatches =
\* totalBatches and success = (failedBatches = 0).
C7_SummaryConsistent ==
    pc = "done" =>
        /\ summary[1].successfulBatches + summary[1].failedBatches
               = summary[1].totalBatches
        /\ summary[1].success = (summary[1].failedBatches = 0)

\* A returned summary with both successful and failed batches.
C7_Witness ==
    /\ pc = "done"
    /\ summary[1].successfulBatches >= 1
    /\ summary[1].failedBatches >= 1

\* C8: the error list has one entry per failed delivery, in the order of the
\* failures, so its length is failedBatches; with 3 batches of which only
\* the second delivery fails the summary has successfulBatches = 2,
\* failedBatches = 1, success = false, one error entry for batch 2, and the
\* third batch was attempted.
C8_OneErrorPerFailure ==
    /\ Len(errors) = failedBatches
    /\ Len(errors) = Cardinality(FailedPositions)
    /\ \A n \in 1..Len(errors) :
           /\ errors[n].batchNumber = NthFailure(n)
           /\ errors[n].error = responses[NthFailure(n)]
    /\ (/\ pc = "done"
        /\ Len(batches) = 3
        /\ FailedPositions = {2})
       => /\ summary[1].successfulBatches = 2
          /\ summary[1].failedBatches = 1
          /\ summary[1].success = FALSE
          /\ Len(summary[1].errors) = 1
          /\ summary[1].errors[1].batchNumber = 2
          /\ Len(deliveries) = 3
          /\ deliveries[3].batch = 2

\* The returned call over 3 batches of which only the second delivery failed.
C8_Witness ==
    /\ pc = "done"
    /\ Len(batches) = 3
    /\ FailedPositions = {2}

\* C9: the record appended for a failed delivery carries the failed batch's
\* own batch_number and its sheet name.
C9_ErrorNamesOwnBatchNumber ==
    \A n \in 1..Len(errors) :
        /\ Len(errors) = Cardinality(FailedPositions)
        /\ errors[n].batchNumber = batches[NthFailure(n)].batch_number
        /\ errors[n].sheetName = batches[NthFailure(n)].sheet_name

\* C10: in a pass with at least one batch the delivery of the last batch,
\* and no other, carries is_final_batch = true, nothing is sent after it,
\* and a returned call has sent exactly one delivery flagged final.
C10_FinalFlagOnLastOnly ==
    /\ \A k \in 1..Len(deliveries) :
           /\ deliveries[k].is_final_batch
                  = (deliveries[k].batch = Len(batches) - 1)
           /\ deliveries[k].is_final_batch => k = Len(deliveries)
    /\ (pc = "done" /\ Len(batches) >= 1)
       => Cardinality({k \in 1..Len(deliveries) :
                          deliveries[k].is_final_batch}) = 1

\* A returned call over several batches: the last delivery was flagged
\* final although an earlier one had failed.
C10_Witness ==
    /\ pc = "done"
    /\ Len(batches) >= 2
    /\ deliveries[Len(deliveries)].is_final_batch
    /\ ~deliveries[1].is_final_batch
    /\ failedBatches >= 1

\* ------------------------------------------- order, progress events, pacing
\* The batch a delivery carries.
DeliveredBatch(k) == batches[deliveries[k].batch + 1]

\* The positions in `events` of the events of one stage.
EventsOfStage(stage) == {k \in 1..Len(events) : events[k].stage = stage}

\* The 'transmission' events, in emission order.
TransmissionEvents == SelectSeq(events, LAMBDA e : e.stage = "transmission")

\* TRUE when the n-th 'transmission' event describes the k-th delivery.
Announces(n, k) ==
    /\ TransmissionEvents[n].completedBatches = k - 1
    /\ TransmissionEvents[n].currentSheet = DeliveredBatch(k).sheet_name
    /\ TransmissionEvents[n].batchNumber = DeliveredBatch(k).batch_number
    /\ TransmissionEvents[n].cellsInBatch = Len(DeliveredBatch(k).cells)

\* C11: within one pass the deliveries of one sheet are sent in strictly
\* increasing batch_number order, whatever the outcomes of earlier ones.
C11_PerSheetDeliveryOrder ==
    \A j \in 1..Len(deliveries) : \A k \in (j + 1)..Len(deliveries) :
        DeliveredBatch(j).sheet_name = DeliveredBatch(k).sheet_name
            => DeliveredBatch(j).batch_number < DeliveredBatch(k).batch_number

\* The second batch of a sheet is sent after the delivery of its first
\* batch has failed.
C11_Witness ==
    \E k \in 2..Len(deliveries) :
        /\ DeliveredBatch(k).sheet_name = DeliveredBatch(k - 1).sheet_name
        /\ DeliveredBatch(k).batch_number = 2
        /\ responses[k - 1] # "ok"

C13_NoTransmissionEventForFinal ==
    progressCallback =>
        \A k \in 1..Len(deliveries) :
            (\E n \in 1..Len(TransmissionEvents) : Announces(n, k))
                <=> ~deliveries[k].is_final_batch

\* C13 amended: with a progress callback, one 'transmission' event is
\* emitted for the send of every batch, the final one included; the k-th one
\* names the sheet, the batch number and the cell count of the k-th batch
\* sent, with completedBatches = k - 1.
C13_TransmissionEventPerSend ==
    progressCallback =>
        /\ Len(TransmissionEvents) = Len(deliveries)
        /\ \A k \in 1..Len(deliveries) : Announces(k, k)

\* The final batch of a pass of several batches has been sent, with a
\* callback, after a failed delivery.
C13_Witness ==
    /\ progressCallback
    /\ Len(deliveries) >= 2
    /\ deliveries[Len(deliveries)].is_final_batch
    /\ responses # <<>>
    /\ responses[1] # "ok"

\* C14: after each non-final delivery, succeeded or failed, the pacing delay
\* elapses before the next delivery can start (the loop reaches a further
\* batch only by the timer firing), and no delay follows the final delivery.
C14_DelayAfterEveryNonFinalDelivery ==
    /\ [][(pc # "called" /\ pc' = "loop" /\ i' < Len(batches))
             => pc = "delay"]_vars
    /\ [](pc = "delay" => ~IsFinalBatch(i))

\* ------------------------------------------------ properties of extraction
\* An entry of a cell that holds nothing.
Empty(x) == x \in {Null, ""}

\* The records extracted for one sheet, in emission order.
RecordsOfSheet(name) == SelectSeq(allCellData, LAMBDA rec : rec.sheet_name = name)

\* The 0-based index of a one-letter column.
ColumnIndexOf(letter) == CHOOSE n \in 0..25 : ColumnLetters[n + 1] = letter

\* TRUE when the host cell (r, c) of sheet k has a value that is not empty.
HostCellFilled(k, r, c) == ~Empty(workbook[k].range.values[r][c])

\* C17: a host API error on one sheet makes that sheet contribute zero
\* records and leaves the others alone: the loop visits every listed sheet,
\* every filled cell of every readable sheet has its record, and
\* extractAllWorksheetData never throws, neither for a per-sheet failure nor
\* for a failed listing (which yields no records).
C17_SheetFailureIsolated ==
    /\ pc # "extract_threw"
    /\ pc = "extract_done" =>
          /\ sheetIdx = Len(worksheetNames)
          /\ worksheetNames = <<>> => allCellData = <<>>
          /\ worksheetNames # <<>> =>
                \A k \in 1..Len(workbook) :
                    /\ workbook[k].status = "error"
                          => RecordsOfSheet(workbook[k].name) = <<>>
                    /\ workbook[k].status = "ok" =>
                          \A r \in 0..(workbook[k].range.rowCount - 1) :
                          \A c \in 0..(workbook[k].range.columnCount - 1) :
                              HostCellFilled(k, r, c) =>
                                  \E n \in 1..Len(allCellData) :
                                      /\ allCellData[n].sheet_name = workbook[k].name
                                      /\ allCellData[n].row = r + 1
                                      /\ allCellData[n].column = ColumnLetters[c + 1]
                                      /\ allCellData[n].value
                                             = workbook[k].range.values[r][c]

\* The extraction returned the records of the second sheet although the
\* host threw on the first one.
C17_Witness ==
    /\ pc = "extract_done"
    /\ Len(workbook) = 2
    /\ Len(worksheetNames) = 2
    /\ workbook[1].status = "error"
    /\ workbook[2].status = "ok"
    /\ Len(RecordsOfSheet(workbook[2].name)) >= 2

\* C18: every extracted record has at least one of formula, value,
\* display_text non-empty (neither null nor the empty string).
C18_NoEmptyRecord ==
    \A n \in 1..Len(allCellData) :
        ~(/\ Empty(allCellData[n].formula)
          /\ Empty(allCellData[n].value)
          /\ Empty(allCellData[n].display_text))

\* C19: within a sheet the records come row-ascending, then
\* column-ascending: of two records of one sheet the earlier one has the
\* smaller row, or the same row and the smaller column index.
C19_RowMajorOrder ==
    \A j \in 1..Len(allCellData) : \A k \in (j + 1)..Len(allCellData) :
        allCellData[j].sheet_name = allCellData[k].sheet_name =>
            \/ allCellData[j].row < allCellData[k].row
            \/ /\ allCellData[j].row = allCellData[k].row
               /\ ColumnIndexOf(allCellData[j].column)
                      < ColumnIndexOf(allCellData[k].column)

\* A sheet of which records of two rows and two columns were extracted.
C19_Witness ==
    /\ pc = "extract_done"
    /\ \E name \in {workbook[k].name : k \in 1..Len(workbook)} :
           LET recs == RecordsOfSheet(name)
           IN  /\ Len(recs) >= 3
               /\ \E a, b \in 1..Len(recs) :
                      /\ recs[a].row # recs[b].row
                      /\ recs[a].column # recs[b].column

NoOccupiedRange == \A k \in 1..Len(workbook) : workbook[k].status = "norange"

\* C16: a pass over a workbook in which no sheet has an occupied range sends
\* no delivery and yields a summary with totalCells = 0, totalBatches = 0 and
\* success = true, as the result of extractAndTransmitWorkbookData and as the
\* summary of transmitAllCellData on an empty cell list.
C16_EmptyPassSummary ==
    /\ (pc = "eat_done" /\ NoOccupiedRange) =>
          /\ deliveries = <<>>
          /\ result[1].success = TRUE
          /\ result[1].totalCells = 0
          /\ "totalBatches" \in DOMAIN result[1]
          /\ result[1].totalBatches = 0
    /\ (pc = "done" /\ cellData = <<>>) =>
          /\ deliveries = <<>>
          /\ summary[1].success = TRUE
          /\ summary[1].totalCells = 0
          /\ summary[1].totalBatches = 0

\* The limits a BatchConfig holds.
ConfigFields == {"maxRowsPerBatch", "maxTotalRows", "maxTotalCols"}

\* C20: fetchWorkbookConfig never raises, and on a network error, a
\* non-success status or a malformed body it returns a config holding the
\* built-in limit values, not an empty config.
C20_ConfigFailureGivesDefaults ==
    /\ pc # "config_threw"
    /\ (/\ configReturn # <<>>
        /\ configResponses[Len(configResponses)] \in FailureKinds)
       => /\ configReturn[1] # EmptyObject
          /\ DOMAIN configReturn[1] = ConfigFields

\* C21: after one successful fetch of the config the result is cached: no
\* later call of fetchWorkbookConfig issues another request to /config, so a
\* successful response is the last one of the session and no request is
\* pending after it.
C21_ConfigFetchedOnce ==
    \A k \in 1..Len(configResponses) :
        configResponses[k] = "ok" =>
            /\ k = Len(configResponses)
            /\ pc # "config_awaiting"

\* -------------------------------------------- properties of the size limits
\* The used range of sheet k is over a total limit of the config.
OverTotalLimit(k) ==
    \/ workbook[k].range.rowCount > workbookConfig.maxTotalRows
    \/ workbook[k].range.columnCount > workbookConfig.maxTotalCols

\* C22: a sheet whose used range has more rows than maxTotalRows (or more
\* columns than maxTotalCols) contributes no record, while every compliant
\* readable sheet of the workbook has a record for each of its filled cells.
C22_OversizedSheetSkipped ==
    (pc = "extract_done" /\ worksheetNames # <<>>) =>
        \A k \in 1..Len(workbook) :
            workbook[k].status = "ok" =>
                IF OverTotalLimit(k)
                THEN RecordsOfSheet(workbook[k].name) = <<>>
                ELSE \A r \in 0..(workbook[k].range.rowCount - 1),
                        c \in 0..(workbook[k].range.columnCount - 1) :
                        HostCellFilled(k, r, c) =>
                            \E n \in 1..Len(allCellData) :
                                /\ allCellData[n].sheet_name = workbook[k].name
                                /\ allCellData[n].row = r + 1
                                /\ allCellData[n].column = ColumnLetters[c + 1]

\* ceil(a / b) for b > 0.
CeilDiv(a, b) == (a + b - 1) \div b

\* The loads the host did for one sheet, in order.
LoadsOfSheet(name) == SelectSeq(rangeLoads, LAMBDA load : load.sheet_name = name)

\* C23: a readable sheet within the total limits, with rowCount rows, is
\* read in ceil(rowCount / maxRowsPerBatch) consecutive row windows of at
\* most maxRowsPerBatch rows each, which cover every row exactly once.
C23_RowWindows ==
    (pc = "extract_done" /\ worksheetNames # <<>>) =>
        \A k \in 1..Len(workbook) :
            (workbook[k].status = "ok" /\ ~OverTotalLimit(k)) =>
                LET loads    == LoadsOfSheet(workbook[k].name)
                    rowCount == workbook[k].range.rowCount
                    window   == workbookConfig.maxRowsPerBatch
                IN  /\ Len(loads) = CeilDiv(rowCount, window)
                    /\ \A n \in 1..Len(loads) :
                          /\ loads[n].firstRow = (n - 1) * window
                          /\ loads[n].rowCount >= 1
                          /\ loads[n].rowCount <= window
                          /\ loads[n].firstRow + loads[n].rowCount
                                = IF n = Len(loads) THEN rowCount ELSE n * window

\* ------------------------------------------- properties of getColumnLetter
\* The number that column letters stand for in bijective base 26: "A" is 1,
\* "Z" is 26, "AA" is 27; the empty string is 0.
RECURSIVE BijectiveNumber(_)
BijectiveNumber(letters) ==
    IF Len(letters) = 0 THEN 0
    ELSE BijectiveNumber(SubSeq(letters, 1, Len(letters) - 1)) * 26
         + ColumnIndexOf(SubSeq(letters, Len(letters), Len(letters))) + 1

\* C24: getColumnLetter is the bijective base-26 encoding: the letters it
\* returns for an index stand for that index and no other (so it is
\* injective over 0..10000, without wrap-around), and it maps 0 to "A", 25
\* to "Z", 26 to "AA", 51 to "AZ", 52 to "BA", 701 to "ZZ".
C24_BijectiveBase26 ==
    pc = "letter_done" =>
        /\ BijectiveNumber(result[1]) = columnIndexArg + 1
        /\ columnIndexArg = 0 => result[1] = "A"
        /\ columnIndexArg = 25 => result[1] = "Z"
        /\ columnIndexArg = 26 => result[1] = "AA"
        /\ columnIndexArg = 51 => result[1] = "AZ"
        /\ columnIndexArg = 52 => result[1] = "BA"
        /\ columnIndexArg = 701 => result[1] = "ZZ"

\* The letters of the largest index of the claim were returned.
C24_Witness ==
    /\ pc = "letter_done"
    /\ columnIndexArg = 10000
    /\ Len(result[1]) = 3

\* ------------------------------------------------ properties of the stages
\* The stage of the pass: 0 INIT, 1 EXTRACTING, 2 extracted, 3 PREPARED and
\* TRANSMITTING(i), 4 ended (COMPLETE, the early return, a throw).
StageOf(position) ==
    CASE position = "eat_call" -> 0
      [] position \in {"extract_call", "extract_loop", "extract_done"} -> 1
      [] position = "called" -> 2
      [] position \in {"loop", "awaiting", "delay"} -> 3
      [] OTHER -> 4

\* One step of a pass keeps the order of the stages.
StagesInOrder ==
    /\ StageOf(pc') >= StageOf(pc)
    /\ rangeLoads' # rangeLoads => (deliveries = <<>> /\ StageOf(pc) = 1)
    /\ i' = i \/ i' = i + 1
    /\ i' # i => (StageOf(pc) = 3 /\ Len(responses') = i')
    /\ deliveries' # deliveries =>
          /\ StageOf(pc) = 3
          /\ Len(deliveries) = i
          /\ deliveries' = Append(deliveries, deliveries'[i + 1])
          /\ deliveries'[i + 1].batch = i
    /\ (pc' = "done" /\ pc # "done") =>
          /\ StageOf(pc) = 3
          /\ i = Len(batches)
          /\ Len(responses) = Len(batches)

\* C25: one pass moves through INIT, EXTRACTING, PREPARED, TRANSMITTING(0),
\* ..., TRANSMITTING(N-1), COMPLETE in this order: every read of the
\* extraction is done before the first delivery starts, the transmitting
\* index only grows, by exactly 1, after the delivery of its batch was
\* attempted, no batch is sent twice, and COMPLETE is reached only after
\* batch N-1 was attempted.
C25_StagesInOrder == [][StagesInOrder]_vars

\* A pass that read a sheet, sent two batches and returned.
C25_Witness ==
    /\ pc = "eat_done"
    /\ rangeLoads # <<>>
    /\ Len(deliveries) >= 2
    /\ summary # <<>>

\* ----------------------------------------------- properties of termination
\* transmitAllCellData has emitted 'complete' and returned its summary after
\* one delivery attempt per batch.
Completed ==
    /\ pc = "done"
    /\ summary # <<>>
    /\ Len(deliveries) = Len(batches)
    /\ Len(responses) = Len(batches)
    /\ progressCallback =>
          (events # <<>> /\ events[Len(events)].stage = "complete")

\* C26: when every delivery resolves or fails, a started transmitAllCellData
\* eventually emits 'complete' and returns its summary, after exactly N
\* delivery attempts for N batches.
C26_EventuallyComplete == (pc = "called") ~> Completed

\* ----------------------------------------- properties of the initial pass
\* Every batch of the initial pass was delivered; at least one failed.
AllDelivered ==
    /\ summary # <<>>
    /\ Len(responses) = Len(batches)
    /\ \A k \in 1..Len(responses) : responses[k] = "ok"
SomeFailed == \E k \in 1..Len(responses) : responses[k] # "ok"

\* The texts with which initializeChat reports that nothing is there to
\* chat about: the error status and the 'no cell data' message.
TotalFailureTexts ==
    {"Failed to initialize workbook data",
     "Workbook initialized. No cell data found"}

\* C29: an initializeChat that has ended has reported exactly one outcome:
\* full success exactly when all batches were delivered, partial success
\* exactly when at least one batch failed, total failure exactly when the
\* workbook could not be initialized or no cell was extracted.
C29_ExactlyOneOutcome ==
    pc = "init_done" =>
        /\ Len(shown) = 1
        /\ shown[1].text = "Workbook ready" <=> AllDelivered
        /\ shown[1].text = "Workbook partially ready" <=> SomeFailed
        /\ shown[1].text \in TotalFailureTexts
              <=> (initResponse # "ok" \/ cellData = <<>>)

\* ----------------------------------------------- properties of the session
\* The initial pass runs from the start of initializeChat to its finally.
InitialPassActive == pc # "init_done"

\* The pass started from the console is running.
RerunActive == rerun.pc \notin {"idle", "done"}

\* The POSTs to /store-cell-data that are pending.
DeliveriesInFlight ==
    Cardinality(inFlight) + (IF rerun.pc = "awaiting" THEN 1 ELSE 0)

\* C27: across the session, re-runs through forceReExtractCellData and
\* testCellDataExtraction included, at most one pass is active and at most
\* one delivery to /store-cell-data is in flight at any time.
C27_OnePassAtATime ==
    /\ ~(InitialPassActive /\ RerunActive)
    /\ DeliveriesInFlight <= 1

\* Every delivery and every chat request sent so far.
AllDeliveries ==
    {deliveries[k] : k \in 1..Len(deliveries)}
    \cup {rerun.deliveries[k] : k \in 1..Len(rerun.deliveries)}
AllChatRequests == {chatRequests[k] : k \in 1..Len(chatRequests)}

\* C28: the file id of the session is written at most once, by the answer
\* to /initialize, and never changed afterwards; every delivery and every
\* chat request carries this file id, and no delivery carries an unset one.
C28_FileIdWrittenOnce ==
    /\ [](/\ \A d \in AllDeliveries :
                 Truthy(d.file_id) /\ d.file_id = currentFileId
          /\ \A c \in AllChatRequests : c.file_id = currentFileId
          /\ currentFileId # Null => initResponse = "ok")
    /\ [][currentFileId # Null => currentFileId' = currentFileId]_vars

\* Deliveries of the initial pass and of a pass started from the console,
\* and a chat request, all sent in a session that has its file id.
C28_Witness ==
    /\ Truthy(currentFileId)
    /\ deliveries # <<>>
    /\ rerun.deliveries # <<>>
    /\ chatRequests # <<>>

\* C30: from the start of initializeChat until its last step no chat
\* request is sent: no handleSendMessage gets past its guard and no POST to
\* /chat is in flight while the initial pass extracts, initializes or
\* transmits.
C30_NoChatBeforeInitialPassEnds ==
    InitialPassActive => (chatPc = <<>> /\ chatRequests = <<>>)

\* A chat request in flight after an initial pass that sent deliveries.
C30_Witness ==
    /\ ~InitialPassActive
    /\ deliveries # <<>>
    /\ \E k \in 1..Len(chatPc) : chatPc[k] = "awaiting"

\* ------------------------------------------- properties of the final flag
\* The receiver accepted (answered with an ok status) a delivery that was
\* flagged is_final_batch = true.
FinalAcceptedByReceiver ==
    \E k \in 1..Len(responses) :
        deliveries[k].is_final_batch /\ StatusOk(responses[k])

\* C31: in a returned pass of N >= 1 batches the receiver has accepted a
\* delivery flagged final exactly when the delivery of the last batch
\* succeeded: success = true implies that the flagged delivery was accepted,
\* and a failed last batch leaves the pass un-finalized on the receiver with
\* success = false, the flag being sent once and on the last batch only.
C31_FinalizedIffLastSucceeds ==
    (pc = "done" /\ Len(batches) >= 1) =>
        LET lastSucceeded == responses[Len(batches)] = "ok"
        IN  /\ FinalAcceptedByReceiver <=> lastSucceeded
            /\ summary[1].success => FinalAcceptedByReceiver
            /\ ~lastSucceeded =>
                  (~summary[1].success /\ ~FinalAcceptedByReceiver)
            /\ Cardinality({k \in 1..Len(deliveries) :
                               deliveries[k].is_final_batch}) = 1

\* ------------------------------------------ properties of cell addresses
\* The records that the cells of a used range at its place in the sheet
\* stand for: the cell at offset (r, c) of the range lies in sheet row
\* rowIndex + r + 1 and in the column of index columnIndex + c.
RecordsAtTrueAddress(sheet) ==
    LET range == sheet.range
    IN  { [sheet_name   |-> sheet.name,
           column       |-> GetColumnLetter(range.address.columnIndex + at[2]),
           row          |-> range.address.rowIndex + at[1] + 1,
           formula      |-> IF range.formulas[at[1]][at[2]] # range.values[at[1]][at[2]]
                            THEN range.formulas[at[1]][at[2]] ELSE Null,
           value        |-> range.values[at[1]][at[2]],
           display_text |-> range.text[at[1]][at[2]]] :
          at \in { rc \in (0..(range.rowCount - 1)) \X (0..(range.columnCount - 1)) :
                     ~SkipCell(range.values[rc[1]][rc[2]],
                               range.formulas[rc[1]][rc[2]],
                               range.text[rc[1]][rc[2]]) } }

\* C32: every record carries the true sheet address of its cell: for a used
\* range whose top-left cell is at row r0 and column c0 of the sheet, the
\* record of the cell at offset (i, j) has row r0 + i and the letter of
\* column c0 + j, also when the range does not start at A1.
C32_TrueSheetAddress ==
    (pc = "extract_done" /\ worksheetNames # <<>>) =>
        {allCellData[k] : k \in 1..Len(allCellData)}
            = RecordsAtTrueAddress(workbook[1])

\* ------------------------------------------ properties of terminal events
\* The positions of the terminal progress events among the emitted ones.
TerminalEvents ==
    {k \in 1..Len(events) : events[k].stage \in {"complete", "error"}}

\* C33: a pass of extractAndTransmitWorkbookData that emitted
\* 'extraction_start' and ended has emitted exactly one terminal event,
\* 'complete' when it returned and 'error' when it threw, and that event is
\* the last one emitted.
C33_OneTerminalEvent ==
    (/\ caller = "extractAndTransmit"
     /\ pc \in {"eat_done", "eat_threw"}
     /\ events # <<>>
     /\ events[1].stage = "extraction_start") =>
        /\ TerminalEvents = {Len(events)}
        /\ events[Len(events)].stage =
              (IF pc = "eat_done" THEN "complete" ELSE "error")

\* ------------------------------------------- properties of forced re-runs
\* The pass started from the console begins from nothing: its cells are
\* those of a new extraction of the workbook, its deliveries are numbered
\* from the first batch on, its counters count its own deliveries, and the
\* state of the initial pass is not touched.
FreshPass ==
    /\ rerun.cellData # <<>> =>
          \E hostThrows \in BOOLEAN :
              rerun.cellData = ExtractAllWorksheetData(hostThrows)
    /\ rerun.batches # <<>> =>
          rerun.batches = BatchCellData(rerun.cellData, DefaultBatchSize)
    /\ \A k \in 1..Len(rerun.deliveries) :
          /\ rerun.deliveries[k].batch = k - 1
          /\ rerun.deliveries[k].file_id = currentFileId
    /\ rerun.successfulBatches + rerun.failedBatches <= Len(rerun.deliveries)
    /\ NotStarted
    /\ NoExtraction

\* C34: a re-run called from the console without a file id extracts and
\* delivers nothing and only shows an error; with a file id it runs a fresh
\* pass, and afterwards cellDataExtracted is the success flag of that pass,
\* false when the pass threw.
C34_RerunSetsExtractedFlag ==
    /\ (rerun.pc = "done" /\ ~Truthy(currentFileId)) =>
          /\ rerun.cellData = <<>>
          /\ rerun.deliveries = <<>>
          /\ rerun.result = <<>>
          /\ Len(shown) = 2
          /\ shown[2] = [by |-> "showError", text |-> "No file ID available"]
    /\ (rerun.pc # "idle" /\ Truthy(currentFileId)) => FreshPass
    /\ (rerun.pc = "done" /\ Truthy(currentFileId)) =>
          cellDataExtracted = (IF rerun.result # <<>>
                               THEN rerun.result[1].success
                               ELSE FALSE)

\* ------------------------------------------ properties of sheet contiguity
\* Equal entries of the sequence stand next to each other.
Contiguous(names) ==
    \A a \in 1..Len(names) : \A c \in (a + 1)..Len(names) :
        names[a] = names[c] => names[c - 1] = names[a]

\* C35: the batches of one sheet are contiguous in the sequence that
\* batchCellData produces: after a batch of another sheet no batch of the
\* earlier sheet follows, and the deliveries of a pass follow that order, so
\* that deliveries of different sheets are not interleaved.
C35_SheetsContiguous ==
    /\ Contiguous([k \in 1..Len(batches) |-> batches[k].sheet_name])
    /\ Contiguous([k \in 1..Len(deliveries) |-> DeliveredBatch(k).sheet_name])

\* A returned pass over a cell list in which the cells of two sheets
\* alternate.
C35_Witness ==
    /\ pc = "done"
    /\ Len(deliveries) >= 2
    /\ \E j, k, l \in 1..Len(cellData) :
          /\ j < k /\ k < l
          /\ cellData[j].sheet_name = cellData[l].sheet_name
          /\ cellData[j].sheet_name # cellData[k].sheet_name

\* ------------------------------------------- properties of the chat guard
\* At most one call of handleSendMessage is past its guard, the loading
\* flag is set while it is, and both controls are disabled exactly when
\* the flag is set.
OneChatWhileLoading ==
    /\ Len(chatPc) <= 1
    /\ chatPc # <<>> => isLoading
    /\ pc # "init_call" =>
          disabled = [sendButton |-> isLoading, messageInput |-> isLoading]

\* The messages of the user among the shown ones.
UserMessages(messages) == SelectSeq(messages, LAMBDA m : m.text = "user message")

\* A step taken while the loading flag is set lets no call of
\* handleSendMessage past its guard and shows no user message.
NoChatStartedWhileLoading ==
    isLoading =>
        /\ Len(chatPc') <= Len(chatPc)
        /\ UserMessages(shown') = UserMessages(shown)

\* C36: at most one chat request is in flight at any time: handleSendMessage
\* does nothing while chatState.isLoading is true, the flag is true from the
\* start of a chat request until its response or error has been handled,
\* and the send button and the input are disabled exactly when it is true.
C36_OneChatInFlight ==
    []OneChatWhileLoading /\ [][NoChatStartedWhileLoading]_vars

\* The second message of a session is on its way after the first one has
\* been answered.
C36_Witness ==
    /\ Len(chatRequests) = 2
    /\ chatPc = <<"awaiting">>
    /\ isLoading
    /\ disabled.sendButton /\ disabled.messageInput

\* --------------------------------- termination of getColumnLetter's loop
\* An iteration of the loop replaces the index by floor(index / 26) - 1,
\* which is strictly smaller, and puts one letter in front.
IndexDecreases ==
    (pc = "letter_loop" /\ pc' = "letter_loop") =>
        /\ columnIndexArg' = (columnIndexArg \div 26) - 1
        /\ columnIndexArg' < columnIndexArg
        /\ Len(result'[1]) = Len(result[1]) + 1

\* The returned string has at least one letter, all of them in A..Z.
LettersReturned ==
    pc = "letter_done" =>
        /\ columnIndexArg < 0
        /\ Len(result[1]) >= 1
        /\ \A k \in 1..Len(result[1]) :
              \E n \in 1..26 : SubSeq(result[1], k, k) = ColumnLetters[n]

\* C37: getColumnLetter terminates for every non-negative index: each step
\* of its loop replaces the index by floor(index / 26) - 1, which is
\* strictly smaller, until the index is negative, and the result has at
\* least one letter, all in A..Z.
C37_LoopTerminates ==
    /\ <>(pc = "letter_done")
    /\ [][IndexDecreases]_vars
    /\ []LettersReturned

\* The loop has returned three letters.
C37_Witness ==
    /\ pc = "letter_done"
    /\ result = <<"AAA">>
    /\ columnIndexArg = -1

\* ---------------------------------------- properties of the formula field
\* The host's entries for the cell that a record of a used range starting
\* at A1 stands for.
HostCellOf(rec) ==
    LET range == workbook[SheetNamed(rec.sheet_name)].range
        r == rec.row - 1
        c == ColumnIndexOf(rec.column)
    IN  [value   |-> range.values[r][c],
         formula |-> range.formulas[r][c],
         text    |-> range.text[r][c]]

\* C38: in every extracted record the formula field is null exactly when
\* the host's formula entry of the cell equals its value entry, and is the
\* host's formula entry otherwise; value and display_text are the host's
\* entries unchanged.
C38_FormulaOnlyWhenDistinct ==
    \A n \in 1..Len(allCellData) :
        LET rec  == allCellData[n]
            host == HostCellOf(rec)
        IN  /\ (rec.formula = Null) <=> (host.formula = host.value)
            /\ host.formula # host.value => rec.formula = host.formula
            /\ rec.value = host.value
            /\ rec.display_text = host.text

\* An extraction that returned a record of a constant and a record of a
\* formula cell.
C38_Witness ==
    /\ pc = "extract_done"
    /\ \E j, k \in 1..Len(allCellData) :
          /\ allCellData[j].formula = Null
          /\ allCellData[j].value = ConstantCell.value
          /\ allCellData[k].formula = FormulaCell.formula
          /\ allCellData[k].value = FormulaCell.value

====
